---- MODULE Spec2Model ----
(***************************************************************************)
(* Verification model of the plant phenotyping analysis front end:         *)
(*   - the PlantTimeline component (multi-entity timeline aggregator):     *)
(*     selection of up to three plants, feature selection, concurrent      *)
(*     per-plant fetches and the chart data aligned on a shared date axis; *)
(*   - the functions of chartDataProcessor.js: the feature-matrix cleaner  *)
(*     loadAndCleanFeatures, mergeGenotypeMapping, splitFeatureGroups,     *)
(*     computeCorrelationMatrix, prepareViolinData and zscoreNormalize,    *)
(*     the last four with the rounding of floating-point arithmetic;       *)
(*   - the ChartsView component: loading of the data and the correlation   *)
(*     heatmaps;                                                           *)
(*   - the PlantDetails view: the analysis of a plant, from the click on   *)
(*     Analyze to its results or its failure.                              *)
(***************************************************************************)
EXTENDS Integers, Sequences, FiniteSets, TLC

(***************************************************************************)
(* Bounds of the exploration.                                              *)
(***************************************************************************)
\* number of selection operations (plants, feature) explored on the timeline
MaxOps == 4
\* number of selection operations and of display operations (statistics
\* checkboxes, date range) explored in the chart specification
MaxChartOps == 2
MaxViewOps == 1
\* number of records given to the cleaner
MaxRows == 3

(***************************************************************************)
(* The world outside the component: plants, features and what the          *)
(* timeline accessors of the backend return.                               *)
(***************************************************************************)
Plants == {"plant1", "plant2", "plant3", "plant4"}

\* the plantId prop of the component
DefaultPlant == "plant1"

VegFeatures == {"NDVI", "GNDVI"}
MorphFeatures == {"size_area"}
TextureBands == {"red"}
TextureTypes == {"lbp"}

Stats == <<"mean", "median", "std", "q25", "q75", "min", "max">>

\* dates are YYYY-MM-DD strings compared as strings; the model uses the
\* numbers 1..3 in their place and 0 for the empty string
NoDate == 0

ServerDates(p) ==
    CASE p = "plant1" -> <<1, 2>>
      [] p = "plant2" -> <<2, 3>>
      [] p = "plant3" -> <<1, 3>>
      [] OTHER        -> <<>>

\* one row {date, mean, median, std, q25, q75, min, max} of a timeline
\* accessor; every statistic carries the plant, feature and date it is of
Row(p, key, d) ==
    [date |-> d,
     mean |-> <<p, key, d, "mean">>, median |-> <<p, key, d, "median">>,
     std |-> <<p, key, d, "std">>, q25 |-> <<p, key, d, "q25">>,
     q75 |-> <<p, key, d, "q75">>, min |-> <<p, key, d, "min">>,
     max |-> <<p, key, d, "max">>]

ServerTimeline(p, key) ==
    [i \in 1..Len(ServerDates(p)) |-> Row(p, key, ServerDates(p)[i])]

\* null of a statistic value in a chart series
Null == <<>>

\* a field of a slot of multiPlantData: null, or the rows stored
NullField == [null |-> TRUE, rows |-> <<>>]
Rows(r) == [null |-> FALSE, rows |-> r]

EmptySlot == [vegetation |-> NullField, texture |-> NullField, morphology |-> NullField]

VARIABLES
    \* data() of the component
    multiPlantData, plantDates, isLoadingTimeline, hasLoadedOnce,
    selectedFeatureType, selectedFeature, selectedTextureBand, selectedTextureType,
    show, startDate, endDate, selectedPlants, plantOptions, tempSelectedPlant,
    \* requests in flight
    pending, liveCaller, datesPending,
    \* history
    lastOp, fetchOutcome, ops, viewOps,
    \* the cleaner: its argument, its result and whether it has run
    rawData, cleaned, cleanPc,
    \* a call of a function of chartDataProcessor.js: the objects that exist,
    \* the rows passed and the rows returned (as object identities), the
    \* function called with its other arguments, and the value returned
    heap, inputRows, outputRows, call, returned,
    \* data() of ChartsView and the figure drawn in #plotly-chart
    processedData, genotypeMapping, selectedChartType, isLoading, isInitialLoading,
    errorMessage, plotInstance, figure, selectedSpecies,
    \* the loadData() calls that wait for their responses: the species each
    \* has requested, in the order of the calls
    loads,
    \* PlantDetails: its species prop, the analysis state of data(), whether
    \* the poll timer runs and its attempts, the await the analysis waits at,
    \* and the number of clicks on Analyze
    detailsSpecies, hasStartedAnalysis, isAnalyzing, results, analysisFailed,
    pollInterval, attempts, analysisPc, analyses

tlVars == <<multiPlantData, plantDates, isLoadingTimeline, hasLoadedOnce,
            selectedFeatureType, selectedFeature, selectedTextureBand, selectedTextureType,
            show, startDate, endDate, selectedPlants, plantOptions, tempSelectedPlant,
            pending, liveCaller, datesPending, lastOp, fetchOutcome, ops, viewOps>>

fnVars == <<heap, inputRows, outputRows, call, returned>>

cvVars == <<processedData, genotypeMapping, selectedChartType, isLoading, isInitialLoading,
            errorMessage, plotInstance, figure, selectedSpecies, loads>>

pdVars == <<detailsSpecies, hasStartedAnalysis, isAnalyzing, results, analysisFailed,
            pollInterval, attempts, analysisPc, analyses>>

clVars == <<rawData, cleaned, cleanPc, fnVars, cvVars, pdVars>>

vars == <<tlVars, clVars>>

(***************************************************************************)
(* Computed properties.                                                    *)
(***************************************************************************)
selectedPlantIds == selectedPlants

hasDataLoaded == DOMAIN multiPlantData # {}

isPlantSelected(sel, plantId) == \E i \in 1..Len(sel) : sel[i] = plantId

SeqToSet(s) == {s[i] : i \in 1..Len(s)}

\* Array.from(set).sort(): the ascending sequence of the elements of S
SortedSeq(S) ==
    CHOOSE s \in [1..Cardinality(S) -> S] :
        \A i, j \in 1..Cardinality(S) : i < j => s[i] < s[j]

FieldDates(f) == {f.rows[i].date : i \in 1..Len(f.rows)}

availableDates ==
    LET allDates == UNION {FieldDates(multiPlantData[p].vegetation)
                             \cup FieldDates(multiPlantData[p].texture)
                             \cup FieldDates(multiPlantData[p].morphology) :
                           p \in DOMAIN multiPlantData}
    IN  IF allDates # {} THEN SortedSeq(allDates) ELSE plantDates

\* the feature a load fetches: the field of the slot it fills and the
\* feature specification sent to the accessor
VegKey(f) == [kind |-> "vegetation", spec |-> <<f>>]
TexKey(b, t) == [kind |-> "texture", spec |-> <<b, t>>]
MorphKey(f) == [kind |-> "morphology", spec |-> <<f>>]
NoKey == [kind |-> "none", spec |-> <<>>]

StageOf(kind) ==
    CASE kind = "vegetation" -> 1
      [] kind = "texture"    -> 2
      [] kind = "morphology" -> 3
      [] OTHER               -> 0

\* the first fetch the per-plant callback of loadTimelineData issues after
\* stage `after`, given the selection it reads at that moment
NextFetch(after, ftype, feat, band, ttype) ==
    IF after < 1 /\ ftype = "vegetation" /\ feat # "" THEN VegKey(feat)
    ELSE IF after < 2 /\ ftype = "texture" /\ band # "" /\ ttype # "" THEN TexKey(band, ttype)
    ELSE IF after < 3 /\ ftype = "morphology" /\ feat # "" THEN MorphKey(feat)
    ELSE NoKey

(***************************************************************************)
(* getChartData: the series of every displayed plant aligned on the shared *)
(* date axis.                                                              *)
(***************************************************************************)
plantsToDisplay ==
    IF Len(selectedPlantIds) > 0 THEN selectedPlantIds
    ELSE IF DefaultPlant # "" THEN <<DefaultPlant>> ELSE <<>>

isDateInRange(date) ==
    IF startDate = NoDate /\ endDate = NoDate THEN TRUE
    ELSE IF startDate # NoDate /\ date < startDate THEN FALSE
    ELSE IF endDate # NoDate /\ date > endDate THEN FALSE
    ELSE TRUE

\* the rows of one plant for the selected feature, filtered by date range
plantTimelineData(plantId) ==
    IF plantId \notin DOMAIN multiPlantData THEN <<>>
    ELSE LET plantData == multiPlantData[plantId]
             raw == IF selectedFeatureType = "vegetation" /\ selectedFeature # ""
                       /\ ~plantData.vegetation.null
                    THEN plantData.vegetation.rows
                    ELSE IF selectedFeatureType = "texture" /\ selectedTextureBand # ""
                            /\ selectedTextureType # "" /\ ~plantData.texture.null
                    THEN plantData.texture.rows
                    ELSE IF selectedFeatureType = "morphology" /\ selectedFeature # ""
                            /\ ~plantData.morphology.null
                    THEN plantData.morphology.rows
                    ELSE <<>>
         IN  SelectSeq(raw, LAMBDA d : isDateInRange(d.date))

dateSet ==
    UNION {{plantTimelineData(plantsToDisplay[i])[j].date :
              j \in 1..Len(plantTimelineData(plantsToDisplay[i]))} :
           i \in 1..Len(plantsToDisplay)}

allDates == SortedSeq(dateSet)

\* plantDataByDate[date]: the last row of the plant with that date
getDataForStat(plantId, statName) ==
    LET rows == plantTimelineData(plantId)
        dates == allDates
    IN  [i \in 1..Len(dates) |->
            LET idx == {j \in 1..Len(rows) : rows[j].date = dates[i]}
            IN  IF idx = {} THEN Null
                ELSE rows[CHOOSE j \in idx : \A k \in idx : k <= j][statName]]

\* a variant that forgets the block of the last statistic
plantDatasetsWithoutMax(plantId) ==
    LET active == SelectSeq(SubSeq(Stats, 1, 6), LAMBDA s : show[s])
    IN  [k \in 1..Len(active) |->
            [plantId |-> plantId, statistic |-> active[k],
             data |-> getDataForStat(plantId, active[k])]]

\* the datasets pushed for one plant: one per checked statistic, in the
\* order mean, median, std, q25, q75, min, max
plantDatasets(plantId) ==
    LET active == SelectSeq(Stats, LAMBDA s : show[s])
    IN  [k \in 1..Len(active) |->
            [plantId |-> plantId, statistic |-> active[k],
             data |-> getDataForStat(plantId, active[k])]]

RECURSIVE datasetsFrom(_)
datasetsFrom(i) ==
    IF i > Len(plantsToDisplay) THEN <<>>
    ELSE plantDatasets(plantsToDisplay[i]) \o datasetsFrom(i + 1)

EmptyChart == [allDates |-> <<>>, datasets |-> <<>>]

getChartData ==
    IF Len(plantsToDisplay) = 0 THEN EmptyChart
    ELSE IF \A i \in 1..Len(plantsToDisplay) : plantTimelineData(plantsToDisplay[i]) = <<>>
    THEN EmptyChart
    ELSE [allDates |-> allDates, datasets |-> datasetsFrom(1)]

(***************************************************************************)
(* Methods.                                                                *)
(***************************************************************************)
initializeDates ==
    IF Len(plantDates) > 0
    THEN /\ startDate' = plantDates[1]
         /\ endDate' = plantDates[Len(plantDates)]
    ELSE UNCHANGED <<startDate, endDate>>

\* what the caller of loadTimelineData does once the returned promise
\* resolves: onFeatureChange re-initializes the date range, the other
\* callers only redraw the chart
AfterLoad(caller) ==
    IF caller = "feature" THEN initializeDates ELSE UNCHANGED <<startDate, endDate>>

\* a variant that clears the data of every plant on a selection change
KeepSlotsOfNone(mpd, keep) == [p \in {} |-> mpd[p]]

\* the slots of mpd restricted to / created for the plants of sp
KeepSlots(mpd, keep) == [p \in (DOMAIN mpd) \cap keep |-> mpd[p]]

CreateSlots(mpd, sp) ==
    [p \in (DOMAIN mpd) \cup SeqToSet(sp) |-> IF p \in DOMAIN mpd THEN mpd[p] ELSE EmptySlot]

\* loadTimelineData called by `caller` when the handler has brought the
\* selection to sp, the slots to mpd and the feature selection to
\* (ftype, feat, band, ttype); the synchronous part up to the first await
loadTimelineData(caller, sp, mpd, ftype, feat, band, ttype) ==
    LET fallback == Len(sp) = 0 /\ DefaultPlant # ""
        plantsToLoad == IF fallback THEN <<DefaultPlant>> ELSE sp
        sp2 == IF fallback /\ DefaultPlant \in plantOptions THEN <<DefaultPlant>> ELSE sp
        key == NextFetch(0, ftype, feat, band, ttype)
    IN  IF isLoadingTimeline
        THEN /\ selectedPlants' = sp
             /\ multiPlantData' = mpd
             /\ UNCHANGED <<isLoadingTimeline, pending, liveCaller>>
             /\ AfterLoad(caller)
        ELSE IF Len(plantsToLoad) = 0
        THEN /\ selectedPlants' = sp2
             /\ multiPlantData' = mpd
             /\ UNCHANGED <<isLoadingTimeline, pending, liveCaller>>
             /\ AfterLoad(caller)
        ELSE IF key = NoKey
        THEN \* no fetch is issued: every callback completes at once
             /\ selectedPlants' = sp2
             /\ multiPlantData' = CreateSlots(mpd, plantsToLoad)
             /\ UNCHANGED <<isLoadingTimeline, pending, liveCaller>>
             /\ AfterLoad(caller)
        ELSE /\ selectedPlants' = sp2
             /\ multiPlantData' = CreateSlots(mpd, plantsToLoad)
             /\ isLoadingTimeline' = TRUE
             /\ pending' = pending \cup
                    {[plant |-> p, key |-> key, live |-> TRUE] : p \in SeqToSet(plantsToLoad)}
             /\ liveCaller' = caller
             /\ UNCHANGED <<startDate, endDate>>

NoOutcome == [res |-> "none", key |-> NoKey]

\* a variant that loads even when the selection has become empty
plantsRemainAlways(sp) == TRUE

\* this.selectedPlants.length > 0
plantsRemain(sp) == Len(sp) > 0

onPlantsChange(sel) ==
    LET sp == IF Len(sel) > 3 THEN SubSeq(sel, 1, 3) ELSE sel
        mpd == KeepSlots(multiPlantData, SeqToSet(sp))
        featureChosen == selectedFeature # ""
                           \/ (selectedTextureBand # "" /\ selectedTextureType # "")
    IN  /\ fetchOutcome' = [p \in Plants |-> IF p \in DOMAIN mpd THEN fetchOutcome[p] ELSE NoOutcome]
        /\ IF plantsRemain(sp) /\ DOMAIN mpd # {}
           THEN /\ UNCHANGED hasLoadedOnce
                /\ IF featureChosen
                   THEN loadTimelineData("plants", sp, mpd, selectedFeatureType, selectedFeature,
                                         selectedTextureBand, selectedTextureType)
                   ELSE /\ selectedPlants' = sp
                        /\ multiPlantData' = mpd
                        /\ UNCHANGED <<isLoadingTimeline, pending, liveCaller, startDate, endDate>>
           ELSE IF plantsRemain(sp) /\ featureChosen
           THEN /\ hasLoadedOnce' = FALSE
                /\ loadTimelineData("plants", sp, mpd, selectedFeatureType, selectedFeature,
                                    selectedTextureBand, selectedTextureType)
           ELSE /\ selectedPlants' = sp
                /\ multiPlantData' = mpd
                /\ UNCHANGED <<hasLoadedOnce, isLoadingTimeline, pending, liveCaller,
                               startDate, endDate>>

Op(name, arg) ==
    /\ ops < MaxOps
    /\ ops' = ops + 1
    /\ lastOp' = [name |-> name, arg |-> arg]
    /\ UNCHANGED <<viewOps, clVars>>

ViewOp(name) ==
    /\ viewOps < MaxViewOps
    /\ viewOps' = viewOps + 1
    /\ lastOp' = [name |-> name, arg |-> ""]
    /\ UNCHANGED <<ops, clVars>>

\* a variant of the cap that lets a fourth plant through
maxPlantsReachedAtFour == Len(selectedPlantIds) > 3

\* the cap of addPlant
maxPlantsReached == Len(selectedPlantIds) >= 3

addPlant(plantId) ==
    /\ Op("addPlant", plantId)
    /\ UNCHANGED <<plantDates, selectedFeatureType, selectedFeature, selectedTextureBand,
                   selectedTextureType, show, plantOptions, datesPending>>
    /\ IF maxPlantsReached \/ isPlantSelected(selectedPlantIds, plantId)
       THEN /\ tempSelectedPlant' = ""
            /\ UNCHANGED <<multiPlantData, isLoadingTimeline, hasLoadedOnce, startDate, endDate,
                           selectedPlants, pending, liveCaller, fetchOutcome>>
       ELSE IF plantId \in plantOptions
       THEN /\ tempSelectedPlant' = ""
            /\ onPlantsChange(Append(selectedPlants, plantId))
       ELSE /\ tempSelectedPlant' = plantId
            /\ UNCHANGED <<multiPlantData, isLoadingTimeline, hasLoadedOnce, startDate, endDate,
                           selectedPlants, pending, liveCaller, fetchOutcome>>

RemoveAt(s, i) == SubSeq(s, 1, i - 1) \o SubSeq(s, i + 1, Len(s))

\* the remove button is disabled while isLoadingTimeline
removePlant(index) ==
    /\ ~isLoadingTimeline
    /\ index \in 1..Len(selectedPlants)
    /\ Op("removePlant", selectedPlants[index])
    /\ UNCHANGED <<plantDates, selectedFeatureType, selectedFeature, selectedTextureBand,
                   selectedTextureType, show, plantOptions, datesPending, tempSelectedPlant>>
    /\ onPlantsChange(RemoveAt(selectedPlants, index))

\* the feature-type select: v-model, then onFeatureTypeChange
onFeatureTypeChange(newType) ==
    /\ newType \in {"", "vegetation", "texture", "morphology"}
    /\ newType # selectedFeatureType
    /\ Op("featureType", newType)
    /\ selectedFeatureType' = newType
    /\ selectedFeature' = ""
    /\ selectedTextureBand' = ""
    /\ selectedTextureType' = ""
    /\ UNCHANGED <<multiPlantData, plantDates, isLoadingTimeline, hasLoadedOnce, show,
                   startDate, endDate, selectedPlants, plantOptions, tempSelectedPlant,
                   pending, liveCaller, datesPending, fetchOutcome>>

\* onFeatureChange once v-model has brought the selection to
\* (feat, band, ttype)
onFeatureChange(feat, band, ttype) ==
    LET plantsToLoad == IF Len(selectedPlantIds) > 0 THEN selectedPlantIds
                        ELSE IF DefaultPlant # "" THEN <<DefaultPlant>> ELSE <<>>
    IN  /\ selectedFeature' = feat
        /\ selectedTextureBand' = band
        /\ selectedTextureType' = ttype
        /\ UNCHANGED <<plantDates, hasLoadedOnce, selectedFeatureType, show, plantOptions,
                       tempSelectedPlant, datesPending, fetchOutcome>>
        /\ IF Len(plantsToLoad) > 0
              /\ NextFetch(0, selectedFeatureType, feat, band, ttype) # NoKey
           THEN loadTimelineData("feature", selectedPlants, multiPlantData,
                                 selectedFeatureType, feat, band, ttype)
           ELSE UNCHANGED <<multiPlantData, isLoadingTimeline, startDate, endDate,
                            selectedPlants, pending, liveCaller>>

\* the vegetation-index and morphology-feature selects
selectFeature(feat) ==
    /\ \/ selectedFeatureType = "vegetation" /\ feat \in VegFeatures \cup {""}
       \/ selectedFeatureType = "morphology" /\ feat \in MorphFeatures \cup {""}
    /\ feat # selectedFeature
    /\ Op("feature", feat)
    /\ onFeatureChange(feat, selectedTextureBand, selectedTextureType)

\* the texture-band select: onTextureBandChange, updateTextureFeatures
onTextureBandChange(band) ==
    /\ selectedFeatureType = "texture"
    /\ band \in TextureBands \cup {""}
    /\ band # selectedTextureBand
    /\ Op("textureBand", band)
    /\ selectedTextureBand' = band
    /\ selectedTextureType' = ""
    /\ UNCHANGED <<multiPlantData, plantDates, isLoadingTimeline, hasLoadedOnce,
                   selectedFeatureType, selectedFeature, show, startDate, endDate,
                   selectedPlants, plantOptions, tempSelectedPlant, pending, liveCaller,
                   datesPending, fetchOutcome>>

\* the texture-type select, shown once a band is chosen
selectTextureType(ttype) ==
    /\ selectedFeatureType = "texture"
    /\ selectedTextureBand # ""
    /\ ttype \in TextureTypes \cup {""}
    /\ ttype # selectedTextureType
    /\ Op("feature", ttype)
    /\ onFeatureChange(selectedFeature, selectedTextureBand, ttype)

\* a statistics checkbox: v-model, then updateChart
toggleStat(stat) ==
    /\ stat \in SeqToSet(Stats)
    /\ ViewOp("toggleStat")
    /\ show' = [show EXCEPT ![stat] = ~@]
    /\ UNCHANGED <<multiPlantData, plantDates, isLoadingTimeline, hasLoadedOnce,
                   selectedFeatureType, selectedFeature, selectedTextureBand,
                   selectedTextureType, startDate, endDate, selectedPlants, plantOptions,
                   tempSelectedPlant, pending, liveCaller, datesPending, fetchOutcome>>

\* the start-date and end-date selects: v-model, then updateChart
setStartDate(date) ==
    /\ date \in SeqToSet(availableDates) \cup {NoDate}
    /\ date # startDate
    /\ ViewOp("startDate")
    /\ startDate' = date
    /\ UNCHANGED <<multiPlantData, plantDates, isLoadingTimeline, hasLoadedOnce,
                   selectedFeatureType, selectedFeature, selectedTextureBand,
                   selectedTextureType, show, endDate, selectedPlants, plantOptions,
                   tempSelectedPlant, pending, liveCaller, datesPending, fetchOutcome>>

setEndDate(date) ==
    /\ date \in SeqToSet(availableDates) \cup {NoDate}
    /\ date # endDate
    /\ ViewOp("endDate")
    /\ endDate' = date
    /\ UNCHANGED <<multiPlantData, plantDates, isLoadingTimeline, hasLoadedOnce,
                   selectedFeatureType, selectedFeature, selectedTextureBand,
                   selectedTextureType, show, startDate, selectedPlants, plantOptions,
                   tempSelectedPlant, pending, liveCaller, datesPending, fetchOutcome>>

(***************************************************************************)
(* Responses of the backend.                                               *)
(***************************************************************************)
\* the response of getPlantDates in loadPlantDates, called by mounted for
\* the first selected plant
loadPlantDates(ok) ==
    /\ datesPending
    /\ datesPending' = FALSE
    /\ lastOp' = [name |-> "plantDates", arg |-> DefaultPlant]
    /\ IF ok
       THEN /\ plantDates' = ServerDates(DefaultPlant)
            /\ startDate' = plantDates'[1]
            /\ endDate' = plantDates'[Len(plantDates')]
       ELSE /\ plantDates' = <<>>
            /\ UNCHANGED <<startDate, endDate>>
    /\ UNCHANGED <<multiPlantData, isLoadingTimeline, hasLoadedOnce, selectedFeatureType,
                   selectedFeature, selectedTextureBand, selectedTextureType, show,
                   selectedPlants, plantOptions, tempSelectedPlant, pending, liveCaller,
                   fetchOutcome, ops, viewOps, clVars>>

\* a variant in which a failed fetch empties the series of every plant
storeRowsAbortingAll(mpd, plantId, kind, rows) ==
    IF rows = <<>> THEN [q \in DOMAIN mpd |-> [mpd[q] EXCEPT ![kind] = Rows(<<>>)]]
    ELSE [mpd EXCEPT ![plantId][kind] = Rows(rows)]

\* a variant in which the callbacks share one result slot
storeRowsInSharedSlot(mpd, plantId, kind, rows) ==
    LET shared == CHOOSE q \in DOMAIN mpd : TRUE
    IN  [mpd EXCEPT ![shared][kind] = Rows(rows)]

\* the assignment this.multiPlantData[plantId].<kind> = rows
storeRows(mpd, plantId, kind, rows) ==
    [mpd EXCEPT ![plantId][kind] = Rows(rows)]

\* a variant without the finally block
settleKeepingFlag(settled) ==
    IF settled
    THEN /\ liveCaller' = "none"
         /\ AfterLoad(liveCaller)
         /\ UNCHANGED isLoadingTimeline
    ELSE UNCHANGED <<isLoadingTimeline, liveCaller, startDate, endDate>>

\* Promise.all of the live load has settled: the finally block, then the
\* continuation of the caller
settle(settled) ==
    IF settled
    THEN /\ isLoadingTimeline' = FALSE
         /\ liveCaller' = "none"
         /\ AfterLoad(liveCaller)
    ELSE UNCHANGED <<isLoadingTimeline, liveCaller, startDate, endDate>>

\* the per-plant callback of loadTimelineData resumes after its await: the
\* accessor answered (ok) or threw
fetchDone(c, ok) ==
    /\ c \in pending
    /\ lastOp' = [name |-> IF ok THEN "fetchOk" ELSE "fetchFail", arg |-> c.plant]
    /\ UNCHANGED <<plantDates, selectedFeatureType, selectedFeature, selectedTextureBand,
                   selectedTextureType, show, selectedPlants, plantOptions,
                   tempSelectedPlant, datesPending, ops, viewOps, clVars>>
    /\ IF c.plant \in DOMAIN multiPlantData
       THEN LET rows == IF ok THEN ServerTimeline(c.plant, c.key) ELSE <<>>
                nk == NextFetch(StageOf(c.key.kind), selectedFeatureType, selectedFeature,
                                selectedTextureBand, selectedTextureType)
                rest == pending \ {c}
                pend2 == IF nk = NoKey THEN rest ELSE rest \cup {[c EXCEPT !.key = nk]}
            IN  /\ multiPlantData' = storeRows(multiPlantData, c.plant, c.key.kind, rows)
                /\ hasLoadedOnce' = (hasLoadedOnce \/ (ok /\ Len(rows) > 0))
                /\ fetchOutcome' = [fetchOutcome EXCEPT ![c.plant] =
                                       [res |-> IF ok THEN "ok" ELSE "fail", key |-> c.key]]
                /\ pending' = pend2
                /\ settle(c.live /\ ~\E d \in pend2 : d.live)
       ELSE \* the slot is gone: the assignment throws in the try block and
            \* again in the catch block, the callback rejects
            LET rest == pending \ {c}
            IN  /\ UNCHANGED <<multiPlantData, hasLoadedOnce, fetchOutcome>>
                /\ pending' = IF c.live THEN {[d EXCEPT !.live = FALSE] : d \in rest} ELSE rest
                /\ settle(c.live)

(***************************************************************************)
(* chartDataProcessor.js: loadAndCleanFeatures.                            *)
(* A cell is a JavaScript value: undefined (the record has no such key),   *)
(* null, a finite number, NaN, Infinity or a string.                       *)
(***************************************************************************)
Undefined == [t |-> "undefined", n |-> 0, s |-> ""]
NullValue == [t |-> "null", n |-> 0, s |-> ""]
NaNValue == [t |-> "NaN", n |-> 0, s |-> ""]
InfinityValue == [t |-> "Infinity", n |-> 0, s |-> ""]
Num(n) == [t |-> "number", n |-> n, s |-> ""]
Str(s) == [t |-> "string", n |-> 0, s |-> s]

\* Number(string): the empty string is 0, a numeral its value, other text NaN
StringToNumber(s) ==
    CASE s = ""  -> Num(0)
      [] s = "1" -> Num(1)
      [] s = "2" -> Num(2)
      [] OTHER   -> NaNValue

\* Number(v)
Number(v) ==
    CASE v.t = "string"    -> StringToNumber(v.s)
      [] v.t = "null"      -> Num(0)
      [] v.t = "undefined" -> NaNValue
      [] OTHER             -> v

\* the globals isNaN(v) and isFinite(v), which convert with Number first
isNaN(v) == Number(v).t = "NaN"
isFinite(v) == Number(v).t = "number"

\* v == null
IsNullish(v) == v.t \in {"null", "undefined"}

\* row[col]
Get(row, col) == IF col \in DOMAIN row THEN row[col] ELSE Undefined

\* the keys of the records, in the order Object.keys lists them
ColumnOrder == <<"plant", "date_key", "plant_num", "mutation", "cluster", "ndvi", "note">>
Columns == SeqToSet(ColumnOrder)

excluded == {"date_key", "date_numeric", "plant", "plant_num", "cluster", "cluster_num", "mutation"}

\* df.slice(0, 100)
SampleRows == 100

Min(a, b) == IF a < b THEN a ELSE b

allColumns(data) == SelectSeq(ColumnOrder, LAMBDA col : Get(data[1], col).t # "undefined")

\* the sample of a column: the values of the first rows that are not null
sampleValues(data, col) ==
    SelectSeq([i \in 1..Min(Len(data), SampleRows) |-> Get(data[i], col)],
              LAMBDA v : ~IsNullish(v))

\* the filter of featureColumns
isFeatureColumn(data, col) ==
    IF col \in excluded THEN FALSE
    ELSE LET sample == sampleValues(data, col)
             numericCount == Len(SelectSeq(sample, LAMBDA v : ~isNaN(v) /\ isFinite(v)))
         IN  IF Len(sample) = 0 THEN FALSE
             ELSE 2 * numericCount > Len(sample)

featureColumnsOf(data) == SelectSeq(allColumns(data), LAMBDA col : isFeatureColumn(data, col))

keepColumnsOf(data) == <<"plant", "date_key", "plant_num", "mutation">> \o featureColumnsOf(data)

\* the cell of a kept column in the copy of a row
cleanCell(val) ==
    IF IsNullish(val) \/ val = Str("") THEN NullValue
    ELSE IF isNaN(val) THEN val ELSE Number(val)

cleanedDataOf(data) ==
    LET keepColumns == SeqToSet(keepColumnsOf(data))
    IN  [i \in 1..Len(data) |->
            [col \in keepColumns |-> cleanCell(Get(data[i], col))]]

\* values.sort((a, b) => a - b) on numbers
RECURSIVE InsertSorted(_, _)
InsertSorted(sorted, x) ==
    IF sorted = <<>> THEN <<x>>
    ELSE IF x < Head(sorted) THEN <<x>> \o sorted
    ELSE <<Head(sorted)>> \o InsertSorted(Tail(sorted), x)

RECURSIVE SortNumbers(_)
SortNumbers(values) ==
    IF values = <<>> THEN <<>>
    ELSE InsertSorted(SortNumbers(Tail(values)), Head(values))

\* a variant taking the lower of the two middle elements
medianIndexLower(n) == (n - 1) \div 2

\* Math.floor(values.length / 2), a 0-based index
medianIndex(n) == n \div 2

\* medians[col] || 0: the fill value of a feature column
fillValue(rows, col) ==
    LET cells == SelectSeq([i \in 1..Len(rows) |-> rows[i][col]],
                           LAMBDA v : ~IsNullish(v) /\ isFinite(v))
        values == SortNumbers([i \in 1..Len(cells) |-> cells[i].n])
    IN  IF Len(values) > 0 THEN values[medianIndex(Len(values)) + 1] ELSE 0

\* a variant that imputes null cells only
imputeCellIfNull(cell, fill) ==
    IF IsNullish(cell) THEN Num(fill) ELSE cell

\* a variant that fills the null cells and blanks the cells that are no
\* finite number
imputeCellBlanking(cell, fill) ==
    IF IsNullish(cell) THEN Num(fill) ELSE IF ~isFinite(cell) THEN NullValue ELSE cell

\* the imputation of one cell of a feature column
imputeCell(cell, fill) ==
    IF IsNullish(cell) \/ ~isFinite(cell) THEN Num(fill) ELSE cell

loadAndCleanFeatures(data) ==
    IF Len(data) = 0 THEN [data |-> <<>>, columns |-> <<>>]
    ELSE LET featureColumns == featureColumnsOf(data)
             cleanedData == cleanedDataOf(data)
             medians == [col \in SeqToSet(featureColumns) |-> fillValue(cleanedData, col)]
             imputed == [i \in 1..Len(data) |->
                           [col \in DOMAIN cleanedData[i] |->
                              IF col \in DOMAIN medians
                              THEN imputeCell(cleanedData[i][col], medians[col])
                              ELSE cleanedData[i][col]]]
         IN  [data |-> imputed, columns |-> keepColumnsOf(data),
              featureColumns |-> featureColumns]

\* the records given to the cleaner: identifier columns, a measured column
\* with every kind of cell, a free-text column
NdviCells == {Undefined, NullValue, NaNValue, InfinityValue, Num(0), Num(1), Num(2),
              Str(""), Str("2"), Str("abc")}
NoteCells == {Str("abc"), Str("1")}

RecordOf(ndvi, note) ==
    [col \in Columns |->
        CASE col = "plant"     -> Str("A")
          [] col = "date_key"  -> Str("2024-01-01")
          [] col = "plant_num" -> Num(1)
          [] col = "mutation"  -> Undefined
          [] col = "cluster"   -> Num(2)
          [] col = "ndvi"      -> ndvi
          [] OTHER             -> note]

Records == {RecordOf(ndvi, note) : ndvi \in NdviCells, note \in NoteCells}

Inputs == UNION {[1..k -> Records] : k \in 0..MaxRows}

(***************************************************************************)
(* Objects. A row is an object with an identity; an array of rows is a     *)
(* list of identities into the heap.                                       *)
(***************************************************************************)
\* the rows an array holds
Deref(h, ids) == [i \in 1..Len(ids) |-> h[ids[i]]]

\* the identities 1..n of the rows of a fresh array argument
ArgIds(n) == [i \in 1..n |-> i]

\* a variant that hands back the first n objects instead of creating any
ReusedIds(h, n) == [i \in 1..n |-> i]

\* the identities of n objects created by an object literal in a map callback
NewIds(h, n) == [i \in 1..n |-> Len(h) + i]

\* the heap after the objects ids[i] are given the fields rows[i]
Store(h, ids, rows) ==
    LET top == IF ids = <<>> \/ ids[Len(ids)] < Len(h) THEN Len(h) ELSE ids[Len(ids)]
    IN  [k \in 1..top |->
            IF \E i \in 1..Len(ids) : ids[i] = k
            THEN rows[CHOOSE i \in 1..Len(ids) : ids[i] = k]
            ELSE h[k]]

\* no function is being called; no value has been returned
NoCall == [fn |-> "none"]
NotReturned == [fn |-> "none"]

\* a caller cleans its records: df.map creates the cleaned rows, the
\* imputation then writes into them
clean ==
    /\ call.fn = "loadAndCleanFeatures"
    /\ cleanPc = "idle"
    /\ cleaned' = loadAndCleanFeatures(rawData)
    /\ cleanPc' = "cleaned"
    /\ IF Len(rawData) = 0
       THEN /\ outputRows' = <<>>
            /\ heap' = heap
       ELSE LET ids == NewIds(heap, Len(rawData))
            IN  /\ outputRows' = ids
                /\ heap' = Store(heap, ids, cleaned'.data)
    /\ UNCHANGED <<rawData, tlVars, pdVars, cvVars, inputRows, call, returned>>

\* a chart producer cleans the rows of an earlier cleaning again
reclean ==
    /\ call.fn = "loadAndCleanFeatures"
    /\ cleanPc = "cleaned"
    /\ cleanPc' = "recleaned"
    /\ returned' = [fn |-> call.fn, value |-> loadAndCleanFeatures(cleaned.data)]
    /\ IF Len(cleaned.data) = 0
       THEN UNCHANGED <<outputRows, heap>>
       ELSE LET ids == NewIds(heap, Len(cleaned.data))
            IN  /\ outputRows' = ids
                /\ heap' = Store(heap, ids, returned'.value.data)
    /\ UNCHANGED <<rawData, cleaned, tlVars, pdVars, cvVars, inputRows, call>>

(***************************************************************************)
(* JavaScript numbers are binary floating point: every arithmetic result   *)
(* is rounded to the nearest representable value, ties to the even         *)
(* mantissa. The model keeps the rounding with a mantissa of Precision     *)
(* bits (53 in the engine) and leaves the exponent unbounded. A number is  *)
(* m * 2^e with m odd, or 0.                                               *)
(***************************************************************************)
Precision == 4

Float(m, e) == [m |-> m, e |-> e]
Zero == Float(0, 0)

Abs(n) == IF n < 0 THEN -n ELSE n
Sign(n) == IF n < 0 THEN -1 ELSE IF n > 0 THEN 1 ELSE 0

\* the number of binary digits of a positive integer
RECURSIVE BitLen(_)
BitLen(a) == IF a = 0 THEN 0 ELSE 1 + BitLen(a \div 2)

\* a * 2^e with the trailing zero digits of a moved into the exponent
RECURSIVE Strip(_, _)
Strip(a, e) == IF a % 2 = 0 THEN Strip(a \div 2, e + 1) ELSE Float(a, e)

\* the representable number nearest to n * 2^e
Round(n, e) ==
    IF n = 0 THEN Zero
    ELSE LET a == Abs(n)
             k == IF BitLen(a) > Precision THEN BitLen(a) - Precision ELSE 0
             q == a \div (2 ^ k)
             r == a % (2 ^ k)
             up == k > 0 /\ (2 * r > 2 ^ k \/ (2 * r = 2 ^ k /\ q % 2 = 1))
             kept == Strip(IF up THEN q + 1 ELSE q, e + k)
         IN  Float(Sign(n) * kept.m, kept.e)

FromInt(n) == Round(n, 0)

\* x + y, x - y, x * y
FAdd(x, y) ==
    LET e == Min(x.e, y.e)
    IN  Round(x.m * 2 ^ (x.e - e) + y.m * 2 ^ (y.e - e), e)

FSub(x, y) == FAdd(x, Float(-y.m, y.e))

FMul(x, y) == Round(x.m * y.m, x.e + y.e)

\* x / y for y # 0: the quotient is taken to more digits than are kept, the
\* last one recording whether anything is left over
FDiv(x, y) ==
    LET shift == 2 * Precision + 2
        n == Abs(x.m) * 2 ^ shift
        q == n \div Abs(y.m)
        sticky == IF n % Abs(y.m) = 0 THEN 0 ELSE 1
    IN  Round(Sign(x.m) * Sign(y.m) * (2 * q + sticky), x.e - y.e - shift - 1)

\* the largest r with r * r <= n
RECURSIVE SqrtBetween(_, _, _)
SqrtBetween(n, lo, hi) ==
    IF lo = hi THEN lo
    ELSE LET mid == (lo + hi + 1) \div 2
         IN  IF mid * mid <= n THEN SqrtBetween(n, mid, hi) ELSE SqrtBetween(n, lo, mid - 1)

\* Math.sqrt(x) for x >= 0
FSqrt(x) ==
    LET even == 2 * Precision + 2
        shift == IF (x.e - even) % 2 = 0 THEN even ELSE even + 1
        n == x.m * 2 ^ shift
        r == SqrtBetween(n, 0, 2 ^ ((BitLen(n) + 1) \div 2))
        sticky == IF r * r = n THEN 0 ELSE 1
    IN  Round(2 * r + sticky, (x.e - shift) \div 2 - 1)

\* x > 0
Positive(x) == x.m > 0

(***************************************************************************)
(* chartDataProcessor.js: computeCorrelationMatrix and zscoreNormalize.    *)
(* The cells of the columns they read are numbers, null or non-finite.     *)
(***************************************************************************)
One == FromInt(1)

\* v != null && isFinite(v)
FiniteCell(v) == ~IsNullish(v) /\ isFinite(v)

\* values.reduce((a, b) => a + b, 0)
RECURSIVE FSumFrom(_, _, _)
FSumFrom(values, i, acc) ==
    IF i > Len(values) THEN acc ELSE FSumFrom(values, i + 1, FAdd(acc, values[i]))

FSum(values) == FSumFrom(values, 1, Zero)

\* the value of a column in every row, 0 where it is missing or not finite
columnValues(data, col) ==
    [i \in 1..Len(data) |->
        LET val == Get(data[i], col) IN IF FiniteCell(val) THEN val.n ELSE Zero]

\* the sum over the rows of dx[i] * dy[i], accumulated row by row
SumOfProducts(dx, dy) == FSum([i \in 1..Len(dx) |-> FMul(dx[i], dy[i])])

\* the entry of two differently named columns
correlation(x, y) ==
    LET meanX == FDiv(FSum(x), FromInt(Len(x)))
        meanY == FDiv(FSum(y), FromInt(Len(y)))
        dx == [i \in 1..Len(x) |-> FSub(x[i], meanX)]
        dy == [i \in 1..Len(x) |-> FSub(y[i], meanY)]
        numerator == SumOfProducts(dx, dy)
        sumSqX == SumOfProducts(dx, dx)
        sumSqY == SumOfProducts(dy, dy)
        denominator == FSqrt(FMul(sumSqX, sumSqY))
    IN  IF Positive(denominator) THEN FDiv(numerator, denominator) ELSE Zero

\* a variant that computes the diagonal like any other entry
matrixEntryByFormula(data, col1, col2) ==
    correlation(columnValues(data, col1), columnValues(data, col2))

matrixEntry(data, col1, col2) ==
    IF col1 = col2 THEN One
    ELSE correlation(columnValues(data, col1), columnValues(data, col2))

computeCorrelationMatrix(data, columns) ==
    IF Len(data) = 0 \/ Len(columns) = 0 THEN [matrix |-> <<>>, columns |-> <<>>]
    ELSE [matrix |-> [i \in 1..Len(columns) |->
                        [j \in 1..Len(columns) |-> matrixEntry(data, columns[i], columns[j])]],
          columns |-> columns]

\* values.reduce((sum, v) => sum + Math.pow(v - mean, 2), 0)
SumOfSquares(values, mean) ==
    LET d == [i \in 1..Len(values) |-> FSub(values[i], mean)]
    IN  SumOfProducts(d, d)

\* the body of columns.forEach in zscoreNormalize
normalizeColumn(result, col) ==
    LET cells == SelectSeq([i \in 1..Len(result) |-> Get(result[i], col)], FiniteCell)
        values == [i \in 1..Len(cells) |-> cells[i].n]
    IN  IF Len(values) = 0 THEN result
        ELSE LET mean == FDiv(FSum(values), FromInt(Len(values)))
                 variance == FDiv(SumOfSquares(values, mean), FromInt(Len(values)))
                 std == FSqrt(variance)
             IN  IF Positive(std)
                 THEN [i \in 1..Len(result) |->
                        IF FiniteCell(Get(result[i], col))
                        THEN [result[i] EXCEPT ![col] = Num(FDiv(FSub(@.n, mean), std))]
                        ELSE result[i]]
                 ELSE result

RECURSIVE normalizeFrom(_, _, _)
normalizeFrom(result, columns, k) ==
    IF k > Len(columns) THEN result
    ELSE normalizeFrom(normalizeColumn(result, columns[k]), columns, k + 1)

\* the rows of the copies after normalization
zscoreNormalize(data, columns) == normalizeFrom(data, columns, 1)

\* the rows given to the two functions: a plant name and two measured columns
MaxStatRows == 3

NdviStatCells == {NullValue, Num(FromInt(1)), Num(FromInt(7))}
AreaStatCells == {InfinityValue, Num(FromInt(1)), Num(FromInt(2))}

StatRow(ndvi, area) == [plant |-> Str("A"), ndvi |-> ndvi, area |-> area]
StatRows == {StatRow(ndvi, area) : ndvi \in NdviStatCells, area \in AreaStatCells}
StatInputs == UNION {[1..k -> StatRows] : k \in 0..MaxStatRows}

\* the column lists: none, one, two, a repeated one, one no row has
CorrelationColumns == {<<>>, <<"ndvi">>, <<"ndvi", "area">>, <<"area", "ndvi">>,
                       <<"ndvi", "ndvi">>, <<"area", "lbp">>, <<"ndvi", "area", "lbp">>}
NormalizeColumns == {<<>>, <<"ndvi">>, <<"area">>, <<"ndvi", "area">>, <<"lbp">>}

StatCalls ==
    {[fn |-> "computeCorrelationMatrix", columns |-> c] : c \in CorrelationColumns}
    \cup {[fn |-> "zscoreNormalize", columns |-> c] : c \in NormalizeColumns}

\* a caller asks for the correlation matrix of its rows
correlate ==
    /\ call.fn = "computeCorrelationMatrix"
    /\ returned = NotReturned
    /\ returned' = [fn |-> call.fn,
                    value |-> computeCorrelationMatrix(Deref(heap, inputRows), call.columns)]
    /\ UNCHANGED <<tlVars, pdVars, cvVars, rawData, cleaned, cleanPc, heap, inputRows,
                   outputRows, call>>

\* a caller normalizes its rows: data.map copies every row, the loop over
\* the columns then writes into the copies
normalize ==
    /\ call.fn = "zscoreNormalize"
    /\ returned = NotReturned
    /\ LET ids == NewIds(heap, Len(inputRows))
           copied == Store(heap, ids, Deref(heap, inputRows))
       IN  /\ heap' = Store(copied, ids, zscoreNormalize(Deref(copied, ids), call.columns))
           /\ outputRows' = ids
           /\ returned' = [fn |-> call.fn, value |-> ids]
    /\ UNCHANGED <<tlVars, pdVars, cvVars, rawData, cleaned, cleanPc, inputRows, call>>

(***************************************************************************)
(* chartDataProcessor.js: mergeGenotypeMapping and prepareViolinData.      *)
(***************************************************************************)
\* the truth value of v in a condition and in a || b
Truthy(v) ==
    CASE v.t \in {"undefined", "null", "NaN"} -> FALSE
      [] v.t = "number" -> v.n # 0
      [] v.t = "string" -> v.s # ""
      [] OTHER -> TRUE

\* a || b
Or(a, b) == IF Truthy(a) THEN a ELSE b

\* the property key a value is converted to
KeyOf(v) ==
    CASE v.t = "string" -> v.s
      [] v.t = "number" -> ToString(v.n)
      [] OTHER -> v.t

\* the key `num_${n}`
NumKey(n) == "num_" \o KeyOf(n)

\* map[key] = value
Put(map, key, value) ==
    [k \in DOMAIN map \cup {key} |-> IF k = key THEN value ELSE map[k]]

\* map[key] of an object that started as {}
Lookup(map, key) == IF key \in DOMAIN map THEN map[key] ELSE Undefined

\* the body of genotypeMapping.forEach
addToMappingMap(map, item) ==
    LET plantName == Or(Get(item, "plant"), Get(item, "Plant_Name"))
        label == Or(Get(item, "mutation"), Get(item, "Mutation_Group"))
        byName == IF Truthy(plantName) THEN Put(map, KeyOf(plantName), label) ELSE map
    IN  IF Truthy(Get(item, "Plant_Number"))
        THEN Put(byName, NumKey(Get(item, "Plant_Number")), label)
        ELSE byName

RECURSIVE mappingMapFrom(_, _, _)
mappingMapFrom(map, mapping, k) ==
    IF k > Len(mapping) THEN map
    ELSE mappingMapFrom(addToMappingMap(map, mapping[k]), mapping, k + 1)

mappingMapOf(mapping) == mappingMapFrom(<<>>, mapping, 1)

\* the mutation a row resolves to
resolveMutation(mappingMap, row) ==
    LET byName == Lookup(mappingMap, KeyOf(Get(row, "plant")))
        mutation == IF ~Truthy(byName) /\ Truthy(Get(row, "plant_num"))
                    THEN Lookup(mappingMap, NumKey(Get(row, "plant_num")))
                    ELSE byName
    IN  Or(mutation, NullValue)

\* { ...row, mutation: value }
withMutation(row, value) ==
    [col \in DOMAIN row \cup {"mutation"} |-> IF col = "mutation" THEN value ELSE row[col]]

\* the rows returned for a mapping that is neither absent nor empty
mergeGenotypeMapping(featuresData, mapping) ==
    [i \in 1..Len(featuresData) |->
        withMutation(featuresData[i], resolveMutation(mappingMapOf(mapping), featuresData[i]))]

\* the records of one feature of one category, row by row
violinRecords(data, category, feature) ==
    LET kept == SelectSeq(data, LAMBDA row : Truthy(Get(row, "mutation"))
                                             /\ FiniteCell(Get(row, feature)))
    IN  [i \in 1..Len(kept) |->
            [plant |-> Get(kept[i], "plant"), mutation |-> Get(kept[i], "mutation"),
             feature |-> feature, value |-> Get(kept[i], feature), category |-> category]]

RECURSIVE violinFromFeature(_, _, _, _)
violinFromFeature(data, category, features, k) ==
    IF k > Len(features) THEN <<>>
    ELSE violinRecords(data, category, features[k])
         \o violinFromFeature(data, category, features, k + 1)

\* featureGroups is the list of its categories in key order
RECURSIVE violinFromCategory(_, _, _)
violinFromCategory(data, featureGroups, k) ==
    IF k > Len(featureGroups) THEN <<>>
    ELSE violinFromFeature(data, featureGroups[k].category, featureGroups[k].features, 1)
         \o violinFromCategory(data, featureGroups, k + 1)

prepareViolinData(data, featureGroups) == violinFromCategory(data, featureGroups, 1)

\* the rows and the mappings given to the merger
MaxGenoRows == 2

PlantNums == {Undefined, Num(0), Num(1)}

MergeRow(plant, num) ==
    [plant |-> Str(plant), plant_num |-> num, mutation |-> Str("old"), ndvi |-> Num(1)]
MergeRows == {MergeRow(plant, num) : plant \in {"sorghum_1", "sorghum_2"}, num \in PlantNums}
MergeInputs == UNION {[1..k -> MergeRows] : k \in 0..MaxGenoRows}

MappingEntries ==
    {[plant |-> Str("sorghum_1"), mutation |-> Str("group3")],
     [Plant_Name |-> Str("sorghum_1"), Mutation_Group |-> Str("group2")],
     [Plant_Number |-> Num(1), Mutation_Group |-> Str("group1")],
     [Plant_Number |-> Num(0), Mutation_Group |-> Str("group0")]}
Mappings == {NullField} \cup {Rows(m) : m \in UNION {[1..k -> MappingEntries] : k \in 0..2}}

\* the rows and the feature groups given to the reshaper
Mutations == {Undefined, NullValue, Str(""), Num(0), Str("group3")}
ViolinCells == {NullValue, InfinityValue, Num(1)}

ViolinRow(mutation, ndvi, area) ==
    [plant |-> Str("sorghum_1"), mutation |-> mutation, ndvi |-> ndvi, area |-> area]
ViolinRows == {ViolinRow(mutation, ndvi, area) :
                  mutation \in Mutations, ndvi \in ViolinCells, area \in {NullValue, Num(2)}}
ViolinInputs == UNION {[1..k -> ViolinRows] : k \in 0..MaxGenoRows}

FeatureGroupsArgs ==
    {<<[category |-> "Vegetation", features |-> <<"ndvi">>],
       [category |-> "Texture", features |-> <<>>],
       [category |-> "Morphology", features |-> <<"area">>]>>,
     <<[category |-> "Vegetation", features |-> <<"ndvi", "area">>],
       [category |-> "Texture", features |-> <<"lbp">>],
       [category |-> "Morphology", features |-> <<>>]>>}

\* a caller merges the genotype mapping into its rows
merge ==
    /\ call.fn = "mergeGenotypeMapping"
    /\ returned = NotReturned
    /\ IF call.genotypeMapping.null \/ Len(call.genotypeMapping.rows) = 0
       THEN /\ outputRows' = inputRows
            /\ heap' = heap
       ELSE LET ids == NewIds(heap, Len(inputRows))
            IN  /\ outputRows' = ids
                /\ heap' = Store(heap, ids, mergeGenotypeMapping(Deref(heap, inputRows),
                                                                 call.genotypeMapping.rows))
    /\ returned' = [fn |-> call.fn, value |-> outputRows']
    /\ UNCHANGED <<tlVars, pdVars, cvVars, rawData, cleaned, cleanPc, inputRows, call>>

\* a caller reshapes its rows for the violin plots
reshape ==
    /\ call.fn = "prepareViolinData"
    /\ returned = NotReturned
    /\ returned' = [fn |-> call.fn,
                    value |-> prepareViolinData(Deref(heap, inputRows), call.featureGroups)]
    /\ UNCHANGED <<tlVars, pdVars, cvVars, rawData, cleaned, cleanPc, heap, inputRows,
                   outputRows, call>>

(***************************************************************************)
(* chartDataProcessor.js: splitFeatureGroups.                              *)
(***************************************************************************)
vegKeys == <<"ndvi", "gndvi", "rdvi", "mcari", "tcari", "savi", "osavi", "evi", "ari",
             "pvi", "dvi", "ccci", "cire", "msavi", "wdvi", "lci">>
texKeys == <<"hog", "lbp", "lac", "ehd", "texture_">>
morphKeys == <<"morph_", "height", "width", "area", "perimeter", "circularity", "extent",
               "solidity", "eccentricity", "equivalent_diameter", "roundness", "bbox",
               "convex">>

\* str.startsWith(prefix)
startsWith(str, prefix) ==
    Len(str) >= Len(prefix) /\ SubSeq(str, 1, Len(prefix)) = prefix

\* str.includes(k)
includes(str, k) ==
    \E i \in 1..(Len(str) - Len(k) + 1) : SubSeq(str, i, i + Len(k) - 1) = k

Upper == <<"A", "B", "C", "D", "E", "F", "G", "H", "I", "J", "K", "L", "M",
           "N", "O", "P", "Q", "R", "S", "T", "U", "V", "W", "X", "Y", "Z">>
Lower == <<"a", "b", "c", "d", "e", "f", "g", "h", "i", "j", "k", "l", "m",
           "n", "o", "p", "q", "r", "s", "t", "u", "v", "w", "x", "y", "z">>

lowerChar(c) ==
    IF \E i \in 1..26 : Upper[i] = c THEN Lower[CHOOSE i \in 1..26 : Upper[i] = c] ELSE c

\* str.toLowerCase()
RECURSIVE toLowerCase(_)
toLowerCase(str) ==
    IF Len(str) = 0 THEN "" ELSE lowerChar(Head(str)) \o toLowerCase(Tail(str))

\* keys.some(k => colLower.includes(k))
someIncluded(keys, colLower) == \E i \in 1..Len(keys) : includes(colLower, keys[i])

\* the three conditions of the if / else if chain
matchesVeg(col) == startsWith(col, "veg_") \/ someIncluded(vegKeys, toLowerCase(col))
matchesTex(col) == startsWith(col, "texture_") \/ someIncluded(texKeys, toLowerCase(col))
matchesMorph(col) == startsWith(col, "morph_") \/ someIncluded(morphKeys, toLowerCase(col))

\* a variant in which the three tests are independent ifs
groupsOfIndependently(col) ==
    (IF matchesVeg(col) THEN {"Vegetation"} ELSE {})
    \cup (IF matchesTex(col) THEN {"Texture"} ELSE {})
    \cup (IF matchesMorph(col) THEN {"Morphology"} ELSE {})

\* the lists a column is pushed to
groupsOf(col) ==
    IF matchesVeg(col) THEN {"Vegetation"}
    ELSE IF matchesTex(col) THEN {"Texture"}
    ELSE IF matchesMorph(col) THEN {"Morphology"}
    ELSE {}

\* a variant that keeps the columns matching no group, in the last list
splitFeatureGroupsKeepingOthers(columns) ==
    [Vegetation |-> SelectSeq(columns, LAMBDA col : "Vegetation" \in groupsOf(col)),
     Texture    |-> SelectSeq(columns, LAMBDA col : "Texture" \in groupsOf(col)),
     Morphology |-> SelectSeq(columns, LAMBDA col : groupsOf(col) \subseteq {"Morphology"})]

splitFeatureGroups(columns) ==
    [Vegetation |-> SelectSeq(columns, LAMBDA col : "Vegetation" \in groupsOf(col)),
     Texture    |-> SelectSeq(columns, LAMBDA col : "Texture" \in groupsOf(col)),
     Morphology |-> SelectSeq(columns, LAMBDA col : "Morphology" \in groupsOf(col))]

\* the column names given to the categorizer: names of one group, names
\* that match the keys of two groups, a name that matches none
MaxColumns == 3

ColumnNames == {"NDVI_mean", "veg_index", "texture_ndvi", "lbp_area", "morph_lbp",
                "circularity", "height", "note"}

ColumnLists == UNION {[1..k -> ColumnNames] : k \in 0..MaxColumns}

\* a caller categorizes its feature columns
split ==
    /\ call.fn = "splitFeatureGroups"
    /\ returned = NotReturned
    /\ returned' = [fn |-> call.fn, value |-> splitFeatureGroups(call.columns)]
    /\ UNCHANGED <<tlVars, pdVars, cvVars, rawData, cleaned, cleanPc, heap, inputRows,
                   outputRows, call>>

(***************************************************************************)
(* chartDataProcessor.js: the ChartsView component, with the chart types   *)
(* of the correlation heatmaps. An await of $nextTick is not a point where *)
(* another handler is taken to run. The species list stays usable while a  *)
(* loadData() waits for its responses, so several can wait at once.        *)
(***************************************************************************)
ChartTypes == {"", "correlation_all", "correlation_vegetation", "correlation_texture",
               "correlation_morphology"}

\* #plotly-chart without a plot
NoFigure == [z |-> <<>>, x |-> <<>>]

NotEnoughFeatures == "Not enough features for correlation matrix"
NoDataToRender == "No data available to render chart"
FailedToLoad == "Failed to load chart data. Please try again."

\* data()
NoCharts ==
    /\ processedData = NullField
    /\ genotypeMapping = NullField
    /\ selectedChartType = ""
    /\ isLoading = FALSE
    /\ isInitialLoading = TRUE
    /\ errorMessage = ""
    /\ plotInstance = NullValue
    /\ figure = NoFigure
    /\ selectedSpecies = ""
    /\ loads = <<>>

\* the columns of the requested heatmap
correlationColumns(cleanedResult, type) ==
    LET featureGroups == splitFeatureGroups(cleanedResult.featureColumns)
    IN  CASE type = "correlation_vegetation" -> featureGroups.Vegetation
          [] type = "correlation_texture"    -> featureGroups.Texture
          [] type = "correlation_morphology" -> featureGroups.Morphology
          [] OTHER                           -> cleanedResult.featureColumns

\* a variant that only refuses an empty list of columns
tooFewIfEmpty(columns) == Len(columns) < 1

\* columns.length < 2
tooFew(columns) == Len(columns) < 2

\* the cells above the diagonal, null elsewhere
maskedMatrix(matrix) ==
    [i \in 1..Len(matrix) |->
        [j \in 1..Len(matrix[i]) |-> IF j <= i THEN NullValue ELSE Num(matrix[i][j])]]

\* the cleaned rows with their numbers in the representation of the
\* arithmetic
AsNumbers(rows) ==
    [i \in 1..Len(rows) |->
        [col \in DOMAIN rows[i] |->
            IF rows[i][col].t = "number" THEN Num(FromInt(rows[i][col].n)) ELSE rows[i][col]]]

\* renderChart() has found data, cleared the chart and found its element;
\* message is the error message at that moment
renderCorrelationHeatmap(data, type, message) ==
    LET cleanedResult == loadAndCleanFeatures(data)
        columns == correlationColumns(cleanedResult, type)
    IN  /\ call' = [fn |-> "renderCorrelationHeatmap", columns |-> columns]
        /\ IF tooFew(columns)
           THEN /\ errorMessage' = NotEnoughFeatures
                /\ returned' = NotReturned
                /\ figure' = NoFigure
                /\ plotInstance' = NullValue
           ELSE LET result == computeCorrelationMatrix(AsNumbers(cleanedResult.data), columns)
                IN  /\ errorMessage' = message
                    /\ returned' = [fn |-> "computeCorrelationMatrix", value |-> result]
                    /\ figure' = [z |-> maskedMatrix(result.matrix), x |-> result.columns]
                    /\ plotInstance' = Str("plotly-chart")

\* the user picks an entry of the chart type list
onChartTypeChange(type) ==
    /\ type # selectedChartType
    /\ selectedChartType' = type
    /\ IF type # "" /\ ~processedData.null /\ Len(processedData.rows) > 0
       THEN /\ renderCorrelationHeatmap(processedData.rows, type, errorMessage)
            /\ isLoading' = FALSE
       ELSE /\ isLoading' = (type # "")
            /\ figure' = NoFigure
            /\ plotInstance' = NullValue
            /\ call' = NoCall
            /\ returned' = NotReturned
            /\ UNCHANGED errorMessage
    /\ UNCHANGED <<tlVars, pdVars, rawData, cleaned, cleanPc, heap, inputRows, outputRows,
                   processedData, genotypeMapping, isInitialLoading, selectedSpecies, loads>>

\* the entries of the species list
Species == {"", "Sorghum"}

\* the user picks a species: clearChart(), then loadData() up to its await
onSpeciesChange(species) ==
    /\ species # selectedSpecies
    /\ selectedSpecies' = species
    /\ figure' = NoFigure
    /\ plotInstance' = NullValue
    /\ isLoading' = TRUE
    /\ errorMessage' = ""
    /\ loads' = Append(loads, species)
    /\ call' = NoCall
    /\ returned' = NotReturned
    /\ UNCHANGED <<tlVars, pdVars, rawData, cleaned, cleanPc, heap, inputRows, outputRows,
                   processedData, genotypeMapping, selectedChartType, isInitialLoading>>

\* the two requests of the k-th waiting loadData() are answered with
\* dataResponse.data || [] and mappingResponse.mapping || []
loadDataDone(k, data, mapping) ==
    /\ k \in 1..Len(loads)
    /\ loads' = RemoveAt(loads, k)
    /\ rawData' = Rows(data)
    /\ genotypeMapping' = Rows(mapping)
    /\ LET cleanedResult == loadAndCleanFeatures(data)
           merged == IF Len(mapping) = 0 THEN cleanedResult.data
                     ELSE mergeGenotypeMapping(cleanedResult.data, mapping)
       IN  /\ processedData' = Rows(merged)
           /\ IF selectedChartType # ""
              THEN IF Len(merged) = 0
                   THEN /\ errorMessage' = NoDataToRender
                        /\ call' = NoCall
                        /\ returned' = NotReturned
                        /\ UNCHANGED <<figure, plotInstance>>
                   ELSE renderCorrelationHeatmap(merged, selectedChartType, errorMessage)
              ELSE /\ call' = NoCall
                   /\ returned' = NotReturned
                   /\ UNCHANGED <<errorMessage, figure, plotInstance>>
    /\ isLoading' = FALSE
    /\ isInitialLoading' = FALSE
    /\ UNCHANGED <<tlVars, pdVars, cleaned, cleanPc, heap, inputRows, outputRows, selectedChartType,
                   selectedSpecies>>

\* one of the two requests of the k-th waiting loadData() fails
loadDataFailed(k) ==
    /\ k \in 1..Len(loads)
    /\ loads' = RemoveAt(loads, k)
    /\ errorMessage' = FailedToLoad
    /\ isLoading' = FALSE
    /\ isInitialLoading' = FALSE
    /\ call' = NoCall
    /\ returned' = NotReturned
    /\ UNCHANGED <<tlVars, pdVars, rawData, cleaned, cleanPc, heap, inputRows, outputRows,
                   processedData, genotypeMapping, selectedChartType, figure, plotInstance,
                   selectedSpecies>>

\* the records the server holds of a species ('' asks for all of them), and
\* the responses it can give
MaxChartRows == 1

PlantsOf(species) ==
    CASE species = "Sorghum" -> {"sorghum_1"}
      [] species = "Cotton"  -> {"cotton_1"}
      [] OTHER               -> {"sorghum_1", "cotton_1"}

ChartRow(plant, ndvi, note) ==
    [plant |-> Str(plant), date_key |-> Str("2024-01-01"), plant_num |-> Num(1),
     ndvi |-> ndvi, note |-> note]
ChartRows(species) ==
    {ChartRow(plant, ndvi, note) :
        plant \in PlantsOf(species), ndvi \in {Str("abc"), Num(2)}, note \in {NullValue, Num(1)}}
ChartInputs(species) == UNION {[1..k -> ChartRows(species)] : k \in 0..MaxChartRows}
ChartMappings == {<<>>, <<[plant |-> Str("sorghum_1"), mutation |-> Str("group3")]>>}

(***************************************************************************)
(* views/PlantDetails.vue: the analysis of the selected plant and date. A  *)
(* plant and a date are selected (canStartAnalysis), a status request is   *)
(* answered before the next tick of the poll timer, and Analyze is clicked *)
(* when no earlier analysis waits for a response. analysisProgress and the *)
(* alerts are left out.                                                    *)
(***************************************************************************)
\* const maxAttempts = 300
maxAttempts == 300

\* number of clicks on Analyze
MaxAnalyses == 2

\* what a successful getDatabaseData returns
AnalysisResult == Str("result")

\* data(), for the species that needs the pipeline
NoAnalysis ==
    /\ detailsSpecies = "Mullet"
    /\ hasStartedAnalysis = FALSE
    /\ isAnalyzing = FALSE
    /\ results = NullValue
    /\ analysisFailed = FALSE
    /\ pollInterval = FALSE
    /\ attempts = 0
    /\ analysisPc = "idle"
    /\ analyses = 0

\* isAnalyzing = false; analysisFailed = true
failAnalysis ==
    /\ isAnalyzing' = FALSE
    /\ analysisFailed' = TRUE

\* the catch of the poll callback
catchInPoll ==
    IF attempts >= maxAttempts
    THEN /\ pollInterval' = FALSE
         /\ failAnalysis
    ELSE UNCHANGED <<pollInterval, isAnalyzing, analysisFailed>>

\* the click on Analyze, up to the await of the method it calls
handleAnalyzeClick ==
    /\ analysisPc = "idle"
    /\ analyses < MaxAnalyses
    /\ analyses' = analyses + 1
    /\ hasStartedAnalysis' = TRUE
    /\ isAnalyzing' = TRUE
    /\ results' = NullValue
    /\ analysisFailed' = FALSE
    /\ analysisPc' = IF toLowerCase(detailsSpecies) = "mullet"
                     THEN "analyzePlant" ELSE "fetchDatabaseData"
    /\ UNCHANGED <<detailsSpecies, pollInterval, attempts, tlVars, rawData, cleaned, cleanPc,
                   fnVars, cvVars>>

\* processAndFetchResults: analyzePlant answers with a task id, answers
\* without one, or is rejected
analyzePlantDone(response) ==
    /\ analysisPc = "analyzePlant"
    /\ IF response = "task_id"
       THEN /\ pollInterval' = TRUE
            /\ attempts' = 0
            /\ analysisPc' = "interval"
            /\ UNCHANGED <<isAnalyzing, analysisFailed>>
       ELSE /\ failAnalysis
            /\ analysisPc' = "idle"
            /\ UNCHANGED <<pollInterval, attempts>>
    /\ UNCHANGED <<detailsSpecies, hasStartedAnalysis, results, analyses, tlVars, rawData,
                   cleaned, cleanPc, fnVars, cvVars>>

\* a tick of the poll timer and the answer to its status request
pollTick(status) ==
    /\ analysisPc = "interval"
    /\ pollInterval
    /\ attempts' = attempts + 1
    /\ CASE status = "SUCCESS" ->
              /\ pollInterval' = FALSE
              /\ analysisPc' = "getDatabaseData"
              /\ UNCHANGED <<isAnalyzing, analysisFailed>>
         [] status = "FAILURE" ->
              /\ pollInterval' = FALSE
              /\ failAnalysis
              /\ analysisPc' = "idle"
         [] OTHER ->
              \* another status, or a rejected request
              IF attempts' >= maxAttempts
              THEN /\ pollInterval' = FALSE
                   /\ failAnalysis
                   /\ analysisPc' = "idle"
              ELSE UNCHANGED <<pollInterval, isAnalyzing, analysisFailed, analysisPc>>
    /\ UNCHANGED <<detailsSpecies, hasStartedAnalysis, results, analyses, tlVars, rawData,
                   cleaned, cleanPc, fnVars, cvVars>>

\* the poll callback after SUCCESS: getDatabaseData answers with the result,
\* answers with nothing, or is rejected; retry tells the first request from
\* the second
getDatabaseDataDone(retry, response) ==
    /\ analysisPc = IF retry THEN "retry" ELSE "getDatabaseData"
    /\ CASE response = "result" ->
              /\ results' = AnalysisResult
              /\ isAnalyzing' = FALSE
              /\ analysisFailed' = FALSE
              /\ analysisPc' = "idle"
              /\ UNCHANGED pollInterval
         [] response = "nothing" /\ ~retry ->
              /\ analysisPc' = "retry"
              /\ UNCHANGED <<results, isAnalyzing, analysisFailed, pollInterval>>
         [] OTHER ->
              /\ catchInPoll
              /\ analysisPc' = "idle"
              /\ UNCHANGED results
    /\ UNCHANGED <<detailsSpecies, hasStartedAnalysis, attempts, analyses, tlVars, rawData,
                   cleaned, cleanPc, fnVars, cvVars>>

\* fetchDatabaseData after its await: it has no catch
fetchDatabaseDataDone(response) ==
    /\ analysisPc = "fetchDatabaseData"
    /\ analysisPc' = "idle"
    /\ IF response = "result"
       THEN /\ results' = AnalysisResult
            /\ isAnalyzing' = FALSE
            /\ analysisFailed' = FALSE
       ELSE UNCHANGED <<results, isAnalyzing, analysisFailed>>
    /\ UNCHANGED <<detailsSpecies, hasStartedAnalysis, pollInterval, attempts, analyses, tlVars,
                   rawData, cleaned, cleanPc, fnVars, cvVars>>

\* the answers of the server
StartResponses == {"task_id", "nothing", "rejected"}
Statuses == {"SUCCESS", "FAILURE", "PENDING", "rejected"}
DataResponses == {"result", "nothing", "rejected"}

(***************************************************************************)
(* The component after mounted(): the plant options are loaded (or their   *)
(* load failed), the default plant is selected and its dates are requested.*)
(***************************************************************************)
InitTimeline ==
    /\ multiPlantData = <<>>
    /\ plantDates = <<>>
    /\ isLoadingTimeline = FALSE
    /\ hasLoadedOnce = FALSE
    /\ selectedFeatureType = "vegetation"
    /\ selectedFeature = ""
    /\ selectedTextureBand = ""
    /\ selectedTextureType = ""
    /\ show = [s \in SeqToSet(Stats) |-> s = "mean"]
    /\ startDate = NoDate
    /\ endDate = NoDate
    /\ selectedPlants = <<DefaultPlant>>
    /\ plantOptions \in {Plants, {}}
    /\ tempSelectedPlant = ""
    /\ pending = {}
    /\ liveCaller = "none"
    /\ datesPending = TRUE
    /\ lastOp = [name |-> "mounted", arg |-> DefaultPlant]
    /\ fetchOutcome = [p \in Plants |-> NoOutcome]
    /\ ops = 0
    /\ viewOps = 0

NoClean ==
    /\ rawData = <<>>
    /\ cleaned = <<>>
    /\ cleanPc = "idle"
    /\ heap = <<>>
    /\ inputRows = <<>>
    /\ outputRows = <<>>
    /\ call = NoCall
    /\ returned = NotReturned
    /\ NoCharts
    /\ NoAnalysis

Init == InitTimeline /\ NoClean

\* the selection protocol of the timeline: plants, feature, fetches
Next ==
    \/ \E p \in Plants : addPlant(p)
    \/ \E i \in 1..3 : removePlant(i)
    \/ \E t \in {"", "vegetation", "texture", "morphology"} : onFeatureTypeChange(t)
    \/ \E f \in VegFeatures \cup MorphFeatures \cup {""} : selectFeature(f)
    \/ \E b \in TextureBands \cup {""} : onTextureBandChange(b)
    \/ \E t \in TextureTypes \cup {""} : selectTextureType(t)
    \/ \E ok \in BOOLEAN : loadPlantDates(ok)
    \/ \E c \in pending, ok \in BOOLEAN : fetchDone(c, ok)

Spec == Init /\ [][Next]_vars

\* the chart: a few selection operations, then the display controls
NextChart ==
    \/ \E p \in {"plant2", "plant4"} : ops < MaxChartOps /\ addPlant(p)
    \/ \E i \in 1..3 : ops < MaxChartOps /\ removePlant(i)
    \/ \E f \in {"NDVI"} : ops < MaxChartOps /\ selectFeature(f)
    \/ \E s \in SeqToSet(Stats) : toggleStat(s)
    \/ \E d \in 0..3 : setStartDate(d)
    \/ \E d \in 0..3 : setEndDate(d)
    \/ \E ok \in BOOLEAN : loadPlantDates(ok)
    \/ \E c \in pending, ok \in BOOLEAN : fetchDone(c, ok)

SpecChart == Init /\ [][NextChart]_vars

\* the loads: a few selection operations of one more plant, every request
\* is answered or fails in the end
MaxLoadOps == 3

NextLoad ==
    \/ ops < MaxLoadOps /\ addPlant("plant2")
    \/ \E i \in 1..2 : ops < MaxLoadOps /\ removePlant(i)
    \/ \E t \in {"vegetation", "texture"} : ops < MaxLoadOps /\ onFeatureTypeChange(t)
    \/ \E f \in {"NDVI", ""} : ops < MaxLoadOps /\ selectFeature(f)
    \/ \E b \in TextureBands : ops < MaxLoadOps /\ onTextureBandChange(b)
    \/ \E t \in TextureTypes : ops < MaxLoadOps /\ selectTextureType(t)
    \/ \E ok \in BOOLEAN : loadPlantDates(ok)
    \/ \E c \in pending, ok \in BOOLEAN : fetchDone(c, ok)

SpecLoad ==
    /\ Init
    /\ [][NextLoad]_vars
    /\ WF_vars(\E c \in pending, ok \in BOOLEAN : fetchDone(c, ok))

\* the cleaner applied to every input within the bounds
InitClean ==
    /\ InitTimeline
    /\ plantOptions = Plants
    /\ rawData \in Inputs
    /\ cleaned = <<>>
    /\ cleanPc = "idle"
    /\ heap = rawData
    /\ inputRows = ArgIds(Len(rawData))
    /\ outputRows = <<>>
    /\ call = [fn |-> "loadAndCleanFeatures"]
    /\ returned = NotReturned
    /\ NoCharts
    /\ NoAnalysis

NextClean == clean

SpecClean == InitClean /\ [][NextClean]_vars

\* records that share their free text are cleaned, and cleaned again
InitReclean ==
    /\ InitClean
    /\ \A i, j \in 1..Len(rawData) : Get(rawData[i], "note") = Get(rawData[j], "note")

NextReclean == clean \/ reclean

SpecReclean == InitReclean /\ [][NextReclean]_vars

\* the statistics applied to every input within the bounds
InitStats ==
    /\ InitTimeline
    /\ plantOptions = Plants
    /\ rawData = <<>>
    /\ cleaned = <<>>
    /\ cleanPc = "idle"
    /\ heap \in StatInputs
    /\ inputRows = ArgIds(Len(heap))
    /\ outputRows = <<>>
    /\ call \in StatCalls
    /\ returned = NotReturned
    /\ NoCharts
    /\ NoAnalysis

NextStats == correlate \/ normalize

SpecStats == InitStats /\ [][NextStats]_vars

\* the merger and the reshaper applied to every input within the bounds
InitGenotype ==
    /\ InitTimeline
    /\ plantOptions = Plants
    /\ rawData = <<>>
    /\ cleaned = <<>>
    /\ cleanPc = "idle"
    /\ \/ /\ heap \in MergeInputs
          /\ call \in {[fn |-> "mergeGenotypeMapping", genotypeMapping |-> m] : m \in Mappings}
       \/ /\ heap \in ViolinInputs
          /\ call \in {[fn |-> "prepareViolinData", featureGroups |-> g] : g \in FeatureGroupsArgs}
    /\ inputRows = ArgIds(Len(heap))
    /\ outputRows = <<>>
    /\ returned = NotReturned
    /\ NoCharts
    /\ NoAnalysis

NextGenotype == merge \/ reshape

SpecGenotype == InitGenotype /\ [][NextGenotype]_vars

\* the categorizer applied to every list of names within the bounds
InitGroups ==
    /\ InitTimeline
    /\ plantOptions = Plants
    /\ rawData = <<>>
    /\ cleaned = <<>>
    /\ cleanPc = "idle"
    /\ heap = <<>>
    /\ inputRows = <<>>
    /\ outputRows = <<>>
    /\ call \in {[fn |-> "splitFeatureGroups", columns |-> c] : c \in ColumnLists}
    /\ returned = NotReturned
    /\ NoCharts
    /\ NoAnalysis

NextGroups == split

SpecGroups == InitGroups /\ [][NextGroups]_vars

\* the three copying transforms, each on its own inputs; the cleaner and the
\* normalizer on those shorter than their longest
InitFrame ==
    \/ InitClean /\ Len(rawData) < MaxRows
    \/ InitStats /\ call.fn = "zscoreNormalize" /\ Len(heap) < MaxStatRows
    \/ InitGenotype /\ call.fn = "mergeGenotypeMapping"

NextFrame == clean \/ normalize \/ merge

SpecFrame == InitFrame /\ [][NextFrame]_vars

\* ChartsView after mounted() has called loadData()
InitCharts ==
    /\ InitTimeline
    /\ plantOptions = Plants
    /\ rawData = NullField
    /\ cleaned = <<>>
    /\ cleanPc = "idle"
    /\ heap = <<>>
    /\ inputRows = <<>>
    /\ outputRows = <<>>
    /\ call = NoCall
    /\ returned = NotReturned
    /\ processedData = NullField
    /\ genotypeMapping = NullField
    /\ selectedChartType = ""
    /\ isLoading = TRUE
    /\ isInitialLoading = TRUE
    /\ errorMessage = ""
    /\ plotInstance = NullValue
    /\ figure = NoFigure
    /\ selectedSpecies = ""
    /\ loads = <<"">>
    /\ NoAnalysis

\* the charts of the responses: a species is picked between two loads, and
\* the server holds records of Sorghum only
NextCharts ==
    \/ \E type \in ChartTypes : onChartTypeChange(type)
    \/ \E species \in Species : loads = <<>> /\ onSpeciesChange(species)
    \/ \E k \in 1..Len(loads) : \E data \in ChartInputs("Sorghum"), mapping \in ChartMappings :
          loadDataDone(k, data, mapping)
    \/ \E k \in 1..Len(loads) : loadDataFailed(k)

SpecCharts == InitCharts /\ [][NextCharts]_vars

\* species picked while earlier loads wait for responses that arrive in any
\* order
MaxLoads == 2

NextSpecies ==
    \/ \E species \in Species : Len(loads) < MaxLoads /\ onSpeciesChange(species)
    \/ \E k \in 1..Len(loads) : \E data \in ChartInputs(loads[k]), mapping \in ChartMappings :
          loadDataDone(k, data, mapping)

SpecSpecies == InitCharts /\ [][NextSpecies]_vars

\* PlantDetails of a species with the pipeline or without it
InitAnalysis ==
    /\ InitTimeline
    /\ plantOptions = Plants
    /\ rawData = <<>>
    /\ cleaned = <<>>
    /\ cleanPc = "idle"
    /\ heap = <<>>
    /\ inputRows = <<>>
    /\ outputRows = <<>>
    /\ call = NoCall
    /\ returned = NotReturned
    /\ NoCharts
    /\ detailsSpecies \in {"Mullet", "Sorghum"}
    /\ hasStartedAnalysis = FALSE
    /\ isAnalyzing = FALSE
    /\ results = NullValue
    /\ analysisFailed = FALSE
    /\ pollInterval = FALSE
    /\ attempts = 0
    /\ analysisPc = "idle"
    /\ analyses = 0

\* the requests of an analysis in progress are answered
answered ==
    \/ \E response \in StartResponses : analyzePlantDone(response)
    \/ \E status \in Statuses : pollTick(status)
    \/ \E retry \in BOOLEAN, response \in DataResponses : getDatabaseDataDone(retry, response)
    \/ \E response \in DataResponses : fetchDatabaseDataDone(response)

NextAnalysis ==
    \/ handleAnalyzeClick
    \/ answered

\* every request is answered or rejected, and the timer keeps ticking
SpecAnalysis == InitAnalysis /\ [][NextAnalysis]_vars /\ WF_vars(answered)

(***************************************************************************)
(* Properties of the timeline aggregator.                                  *)
(***************************************************************************)
ActiveStats == SelectSeq(Stats, LAMBDA s : show[s])

\* the feature the selection designates
CurrentKey == NextFetch(0, selectedFeatureType, selectedFeature,
                        selectedTextureBand, selectedTextureType)

\* the rows a plant has loaded for the kind of the selected feature
LoadedRows(p) ==
    IF p \in DOMAIN multiPlantData /\ CurrentKey # NoKey
    THEN multiPlantData[p][CurrentKey.kind].rows
    ELSE <<>>

RowDates(rows) == {rows[i].date : i \in 1..Len(rows)}

DisplayedPlants == SeqToSet(plantsToDisplay)

\* the series of a plant and statistic in the chart data are aligned on
\* the axis: the value of the plant's row of that date, null without one
SeriesAligned(chart, rowsOf(_)) ==
    \A k \in 1..Len(chart.datasets) :
        LET ds == chart.datasets[k]
            rows == rowsOf(ds.plantId)
        IN  /\ Len(ds.data) = Len(chart.allDates)
            /\ \A i \in 1..Len(chart.allDates) :
                 IF chart.allDates[i] \in RowDates(rows)
                 THEN \E j \in 1..Len(rows) : /\ rows[j].date = chart.allDates[i]
                                              /\ ds.data[i] = rows[j][ds.statistic]
                 ELSE ds.data[i] = Null

\* C1: the shared date axis of getChartData is the ascending, duplicate-free
\* union of all dates in the loaded series of every displayed plant, and
\* every (plant, statistic) series has one value per axis date: the plant's
\* value for that date, or null where the plant has no row for it.
C1_AxisIsUnionOfLoadedDates ==
    LET union == UNION {RowDates(LoadedRows(p)) : p \in DisplayedPlants}
        chart == getChartData
    IN  /\ chart.allDates = SortedSeq(union)
        /\ SeriesAligned(chart, LoadedRows)

\* the data a slot holds after the last completed fetch of plant p
StoredAsFetched(p) ==
    LET o == fetchOutcome[p]
    IN  CASE o.res = "ok"   -> multiPlantData[p][o.key.kind] = Rows(ServerTimeline(p, o.key))
          [] o.res = "fail" -> multiPlantData[p][o.key.kind] = Rows(<<>>)
          [] OTHER          -> TRUE

\* the rows of plant p inside the date range appear in every series of p
Rendered(chart, p, rows) ==
    \A k \in 1..Len(chart.datasets) :
        LET ds == chart.datasets[k]
        IN  ds.plantId = p =>
              \A j \in 1..Len(rows) :
                 isDateInRange(rows[j].date) =>
                    \E i \in 1..Len(chart.allDates) :
                        /\ chart.allDates[i] = rows[j].date
                        /\ ds.data[i] = rows[j][ds.statistic]

\* C2: when the fetch of one plant of a load failed, that plant's series is
\* empty and every sibling whose fetch succeeded still has its fetched rows
\* stored and, when its feature is the selected one, rendered in its series.
C2_FailureKeepsSiblings ==
    LET chart == getChartData
    IN  \A p \in DOMAIN multiPlantData :
          fetchOutcome[p].res = "fail" =>
            /\ multiPlantData[p][fetchOutcome[p].key.kind] = Rows(<<>>)
            /\ \A q \in DOMAIN multiPlantData \ {p} :
                 fetchOutcome[q].res = "ok" =>
                    /\ multiPlantData[q][fetchOutcome[q].key.kind]
                          = Rows(ServerTimeline(q, fetchOutcome[q].key))
                    /\ (fetchOutcome[q].key = CurrentKey /\ q \in DisplayedPlants)
                          => /\ Rendered(chart, q, ServerTimeline(q, CurrentKey))
                             /\ (ActiveStats # <<>> /\ plantTimelineData(q) # <<>>)
                                   => \E k \in 1..Len(chart.datasets) :
                                         chart.datasets[k].plantId = q

\* a load of two plants has ended with one failure and one success, and the
\* successful plant is drawn
C2_Witness ==
    /\ ~isLoadingTimeline
    /\ pending = {}
    /\ \E p, q \in DisplayedPlants :
         /\ fetchOutcome[p].res = "fail"
         /\ fetchOutcome[q].res = "ok"
         /\ fetchOutcome[q].key = CurrentKey
         /\ \E k \in 1..Len(getChartData.datasets) :
               /\ getChartData.datasets[k].plantId = q
               /\ \E i \in 1..Len(getChartData.allDates) :
                     getChartData.datasets[k].data[i] # Null

\* C3: the selection never holds more than 3 plants, and addPlant called
\* while 3 plants are selected changes neither the selection nor the loaded
\* data and starts no fetch.
C3_CapOfThree ==
    /\ [](Len(selectedPlants) <= 3)
    /\ [][(lastOp'.name = "addPlant" /\ ops' = ops + 1 /\ Len(selectedPlants) = 3)
            => /\ selectedPlants' = selectedPlants
               /\ multiPlantData' = multiPlantData
               /\ pending' = pending
               /\ isLoadingTimeline' = isLoadingTimeline]_vars

\* a fourth plant was offered to addPlant while 3 were selected with data
C3_Witness ==
    /\ lastOp.name = "addPlant"
    /\ Len(selectedPlants) = 3
    /\ ~isPlantSelected(selectedPlants, lastOp.arg)
    /\ lastOp.arg \in plantOptions
    /\ hasDataLoaded
    /\ selectedFeature # ""

\* some displayed plant has a row of the selected feature in the date range
SomeRowInRange ==
    \E p \in DisplayedPlants : plantTimelineData(p) # <<>>

\* C4 as stated: the number of series equals the number of selected plants
\* times the number of checked statistics, whatever data is loaded.
C4_SeriesCountAlways ==
    Len(getChartData.datasets) = Len(selectedPlantIds) * Len(ActiveStats)

\* C4 amended: when some displayed plant (the selected plants, or the default
\* plant when none is selected) has a row of the selected feature inside the
\* date range, there is exactly one series per displayed plant and checked
\* statistic; otherwise getChartData produces no series.
C4_SeriesCountWhenData ==
    LET chart == getChartData
    IN  IF SomeRowInRange
        THEN /\ Len(chart.datasets) = Len(plantsToDisplay) * Len(ActiveStats)
             /\ \A i \in 1..Len(plantsToDisplay), k \in 1..Len(Stats) :
                   show[Stats[k]] =>
                      Cardinality({n \in 1..Len(chart.datasets) :
                                     /\ chart.datasets[n].plantId = plantsToDisplay[i]
                                     /\ chart.datasets[n].statistic = Stats[k]}) = 1
        ELSE chart.datasets = <<>>

\* two plants with data and two checked statistics, one of them max
C4_Witness ==
    /\ SomeRowInRange
    /\ Len(plantsToDisplay) = 2
    /\ Len(ActiveStats) = 2
    /\ show["max"]
    /\ Len(getChartData.datasets) = 4

\* a step of addPlant or removePlant that changed the selection
SelectionStep ==
    /\ lastOp'.name \in {"addPlant", "removePlant"}
    /\ ops' = ops + 1
    /\ selectedPlants' # selectedPlants

\* the plants a step starts a fetch for
FetchStarted == {c.plant : c \in pending' \ pending}

\* plant q holds rows fetched for the selected feature
LoadedForCurrent(q) ==
    /\ q \in DOMAIN multiPlantData
    /\ CurrentKey # NoKey
    /\ fetchOutcome[q].res = "ok"
    /\ fetchOutcome[q].key = CurrentKey

\* C5 as stated: adding or removing a plant starts no fetch for another
\* selected plant whose data of the selected feature is already loaded.
C5_NoRefetchOfLoaded ==
    [][SelectionStep => \A q \in FetchStarted : ~LoadedForCurrent(q)]_vars

\* C5 amended: adding or removing a plant leaves the loaded data of every
\* plant that stays selected in place; when that step starts a load, the load
\* fetches every selected plant again, the already loaded ones included.
C5_DataKeptAllRefetched ==
    [][SelectionStep =>
         /\ \A q \in SeqToSet(selectedPlants') \cap DOMAIN multiPlantData :
               /\ q \in DOMAIN multiPlantData'
               /\ multiPlantData'[q] = multiPlantData[q]
         /\ FetchStarted # {} => FetchStarted = SeqToSet(selectedPlants')]_vars

\* a plant was added next to a loaded one and both are being fetched
C5_Witness ==
    /\ lastOp.name = "addPlant"
    /\ Len(selectedPlants) = 2
    /\ \E q \in SeqToSet(selectedPlants) :
         /\ LoadedForCurrent(q)
         /\ multiPlantData[q][CurrentKey.kind].rows # <<>>
         /\ \E c \in pending : c.plant = q
    /\ \E c \in pending : c.plant = lastOp.arg

\* C6: after a change of the feature type no per-plant data remains loaded,
\* and the aggregator is configuring: plants selected, no feature chosen,
\* nothing loading.
C6_FeatureTypeChangeDiscards ==
    lastOp.name = "featureType" =>
        /\ ~hasDataLoaded
        /\ selectedFeature = ""
        /\ selectedTextureBand = ""
        /\ selectedTextureType = ""
        /\ ~isLoadingTimeline

\* C7: the completion of a plant's fetch writes only that plant's slot, and
\* whatever the order of the completions every slot ends with the result of
\* the plant's own fetch.
C7_OwnSlotOnly ==
    /\ [][\A c \in pending :
            c \notin pending' =>
               /\ DOMAIN multiPlantData' = DOMAIN multiPlantData
               /\ \A q \in DOMAIN multiPlantData \ {c.plant} :
                     multiPlantData'[q] = multiPlantData[q]
               /\ \A kind \in {"vegetation", "texture", "morphology"} \ {c.key.kind} :
                     c.plant \in DOMAIN multiPlantData
                        => multiPlantData'[c.plant][kind] = multiPlantData[c.plant][kind]]_vars
    /\ [](\A p \in DOMAIN multiPlantData : StoredAsFetched(p))

\* the fetches of two plants were in flight together and the plant selected
\* later was answered first; both hold their own rows
C7_Witness ==
    /\ pending = {}
    /\ Len(selectedPlants) >= 2
    /\ lastOp.name = "fetchOk"
    /\ lastOp.arg = selectedPlants[1]
    /\ \A i \in 1..2 :
         /\ fetchOutcome[selectedPlants[i]].res = "ok"
         /\ fetchOutcome[selectedPlants[i]].key = CurrentKey
         /\ LoadedRows(selectedPlants[i]) = ServerTimeline(selectedPlants[i], CurrentKey)
         /\ LoadedRows(selectedPlants[i]) # <<>>

(***************************************************************************)
(* Properties of loadAndCleanFeatures.                                     *)
(***************************************************************************)
Cleaned == cleanPc = "cleaned" /\ Len(rawData) > 0

\* a cell that is missing (absent, null, empty) or not a finite number
MissingOrNonFinite(v) ==
    \/ v.t \in {"undefined", "null", "NaN", "Infinity"}
    \/ v = Str("")
    \/ v.t = "string" /\ StringToNumber(v.s).t # "number"

\* the finite values of a column over all rows, as numbers, row by row
FiniteValues(col) ==
    LET present == SelectSeq([i \in 1..Len(rawData) |-> rawData[i][col]],
                             LAMBDA v : ~MissingOrNonFinite(v))
    IN  [i \in 1..Len(present) |-> Number(present[i]).n]

\* x is the element at 0-based index k of the ascending list of values
IsElementAt(values, k, x) ==
    /\ \E i \in 1..Len(values) : values[i] = x
    /\ Cardinality({i \in 1..Len(values) : values[i] < x}) <= k
    /\ Cardinality({i \in 1..Len(values) : values[i] <= x}) > k

\* C8: for a non-empty input every cell of every detected feature column of
\* the cleaned rows is a finite number; no null, empty or NaN value remains.
C8_FeatureCellsFinite ==
    Cleaned =>
        \A i \in 1..Len(cleaned.data) :
            \A k \in 1..Len(cleaned.featureColumns) :
                cleaned.data[i][cleaned.featureColumns[k]].t = "number"

\* a feature column held unusable cells of several kinds before cleaning
C8_Witness ==
    /\ Cleaned
    /\ \E k \in 1..Len(cleaned.featureColumns) :
         /\ cleaned.featureColumns[k] = "ndvi"
         /\ \E i, j \in 1..Len(rawData) :
               /\ rawData[i]["ndvi"].t \in {"NaN", "Infinity"}
               /\ rawData[j]["ndvi"].t = "number"

\* C9: the fill value of a feature column is the element at index floor(n/2)
\* of the ascending list of its n finite values over all rows, 0 when n = 0,
\* and every missing or non-finite cell of the column holds exactly it.
C9_FillIsUpperMedian ==
    Cleaned =>
        \A k \in 1..Len(cleaned.featureColumns) :
            LET col == cleaned.featureColumns[k]
                values == FiniteValues(col)
                n == Len(values)
            IN  \A i \in 1..Len(rawData) :
                    MissingOrNonFinite(rawData[i][col]) =>
                        /\ cleaned.data[i][col].t = "number"
                        /\ IF n = 0 THEN cleaned.data[i][col].n = 0
                           ELSE IsElementAt(values, n \div 2, cleaned.data[i][col].n)

\* a column with two different finite values and a null cell: the cell is
\* filled with the larger one
C9_Witness ==
    /\ Cleaned
    /\ Len(rawData) = 3
    /\ \E k \in 1..Len(cleaned.featureColumns) : cleaned.featureColumns[k] = "ndvi"
    /\ rawData[1]["ndvi"] = Num(2)
    /\ rawData[2]["ndvi"] = NullValue
    /\ rawData[3]["ndvi"] = Num(1)
    /\ cleaned.data[2]["ndvi"] = Num(2)

\* the sample of the claim: the values of the first rows, null and empty
\* values skipped
ClaimSample(col) ==
    SelectSeq([i \in 1..Min(Len(rawData), SampleRows) |-> rawData[i][col]],
              LAMBDA v : ~(v.t \in {"undefined", "null"} \/ v = Str("")))

\* C10: a column of the first record is a feature if and only if it is not
\* an identifier name and, among the values of the first 100 rows with null
\* and empty values skipped, there is a sample and more than half of the
\* samples parse as finite numbers.
C10_FeatureIffMostlyNumeric ==
    Cleaned =>
        \A col \in Columns :
            rawData[1][col].t # "undefined" =>
                ((\E k \in 1..Len(cleaned.featureColumns) : cleaned.featureColumns[k] = col)
                 <=> /\ col \notin excluded
                     /\ Len(ClaimSample(col)) > 0
                     /\ 2 * Len(SelectSeq(ClaimSample(col), LAMBDA v : Number(v).t = "number"))
                           > Len(ClaimSample(col)))

\* the identifier columns a record carries
IdentifierColumnsOf(row) == {col \in Columns : col \in excluded /\ row[col].t # "undefined"}

\* C11: every identifier column of an input row is a column of its cleaned
\* row, every other column of a cleaned row is a detected feature column, and
\* a column that is neither an identifier nor a detected feature is absent.
C11_ColumnsAreIdentifiersPlusFeatures ==
    Cleaned =>
        \A i \in 1..Len(cleaned.data) :
            /\ IdentifierColumnsOf(rawData[i]) \subseteq DOMAIN cleaned.data[i]
            /\ DOMAIN cleaned.data[i] \subseteq excluded \cup SeqToSet(cleaned.featureColumns)
            /\ \A col \in Columns \ excluded :
                 col \notin SeqToSet(cleaned.featureColumns) => col \notin DOMAIN cleaned.data[i]

\* C13: for an empty record list the cleaner returns empty cleaned rows and
\* an empty feature-column list.
C13_EmptyInputEmptyOutput ==
    (cleanPc = "cleaned" /\ Len(rawData) = 0) =>
        /\ cleaned.data = <<>>
        /\ "featureColumns" \in DOMAIN cleaned
        /\ cleaned.featureColumns = <<>>

(***************************************************************************)
(* Properties of the transforms of chartDataProcessor.js.                  *)
(***************************************************************************)
\* the step is a call that returns
Returns == returned' # returned \/ cleanPc' # cleanPc

\* the mapping passed to the merger has at least one entry
MappingGiven == ~call.genotypeMapping.null /\ Len(call.genotypeMapping.rows) > 0

\* C12: a call of loadAndCleanFeatures, of zscoreNormalize or of
\* mergeGenotypeMapping with a non-empty mapping leaves every input row with
\* the fields and values it had, and returns no object that is an input row.
C12_InputRowsUntouched ==
    [][(Returns /\ (call.fn = "mergeGenotypeMapping" => MappingGiven)) =>
          /\ \A k \in 1..Len(inputRows) : heap'[inputRows[k]] = heap[inputRows[k]]
          /\ \A i \in 1..Len(outputRows') :
                \A k \in 1..Len(inputRows) : outputRows'[i] # inputRows[k]]_vars

\* rows were normalized: a returned row differs from the input row it copies
C12_Witness ==
    /\ call.fn = "zscoreNormalize"
    /\ returned # NotReturned
    /\ Len(inputRows) = 2
    /\ \E k \in 1..2 : heap[outputRows[k]] # heap[inputRows[k]]
    /\ \A k \in 1..2 : outputRows[k] = 2 + k

\* the correlation matrix of a non-empty list of rows has been returned
Correlated == returned.fn = "computeCorrelationMatrix" /\ Len(inputRows) > 0

ConstantColumn(col) ==
    \A a, b \in 1..Len(inputRows) :
        /\ FiniteCell(Get(heap[inputRows[a]], col))
        /\ Get(heap[inputRows[a]], col) = Get(heap[inputRows[b]], col)

\* C15: the entry of a column whose values are all equal and of any
\* differently named column is exactly 0.
C15_ConstantColumnUncorrelated ==
    Correlated =>
        \A i, j \in 1..Len(call.columns) :
            (call.columns[i] # call.columns[j] /\ ConstantColumn(call.columns[i]))
                => returned.value.matrix[i][j] = Zero

\* the finite values of a column of the rows passed
FiniteOf(col) ==
    LET cells == SelectSeq([k \in 1..Len(inputRows) |-> Get(heap[inputRows[k]], col)],
                           FiniteCell)
    IN  [k \in 1..Len(cells) |-> cells[k].n]

\* the finite values of the column are not all the same: their population
\* standard deviation is positive
Varies(col) == \E a, b \in 1..Len(FiniteOf(col)) : FiniteOf(col)[a] # FiniteOf(col)[b]

\* (v - mean) / std of the claim: mean and std over the finite values of the
\* column, both with denominator n
ClaimZscore(v, col) ==
    LET values == FiniteOf(col)
        n == FromInt(Len(values))
        mean == FDiv(FSum(values), n)
        std == FSqrt(FDiv(SumOfSquares(values, mean), n))
    IN  FDiv(FSub(v, mean), std)

\* C17: a cell of a selected column whose finite values vary, the cell being
\* finite, becomes (v - mean) / std; every other cell (a constant column, a
\* column without finite values, a non-finite cell, an unselected column) is
\* returned as it was.
C17_NormalizesVaryingColumnsOnly ==
    returned.fn = "zscoreNormalize" =>
        \A k \in 1..Len(inputRows) :
            \A col \in DOMAIN heap[inputRows[k]] :
                LET before == heap[inputRows[k]][col]
                    after == heap[outputRows[k]][col]
                IN  IF col \in SeqToSet(call.columns) /\ Varies(col) /\ FiniteCell(before)
                    THEN after = Num(ClaimZscore(before.n, col))
                    ELSE after = before

\* the names a list holds
Names(list) == {list[i] : i \in 1..Len(list)}

\* C20: the Vegetation, Texture and Morphology lists returned by
\* splitFeatureGroups are pairwise disjoint: no column name is in two of them.
C20_GroupsDisjoint ==
    returned.fn = "splitFeatureGroups" =>
        LET groups == returned.value
        IN  /\ Names(groups.Vegetation) \cap Names(groups.Texture) = {}
            /\ Names(groups.Vegetation) \cap Names(groups.Morphology) = {}
            /\ Names(groups.Texture) \cap Names(groups.Morphology) = {}

\* names matching the keys of two groups were categorized, one of them twice
C20_Witness ==
    /\ returned.fn = "splitFeatureGroups"
    /\ call.columns = <<"lbp_area", "texture_ndvi", "lbp_area">>
    /\ returned.value.Vegetation = <<"texture_ndvi">>
    /\ returned.value.Texture = <<"lbp_area", "lbp_area">>
    /\ returned.value.Morphology = <<>>

\* the (category, feature, row) triples of a call of prepareViolinData whose
\* row has a mutation that is not null and a finite value of the feature
LabelledFinite ==
    {t \in (1..Len(call.featureGroups)) \X (1..2) \X (1..Len(inputRows)) :
        /\ t[2] <= Len(call.featureGroups[t[1]].features)
        /\ ~IsNullish(Get(heap[inputRows[t[3]]], "mutation"))
        /\ FiniteCell(Get(heap[inputRows[t[3]]], call.featureGroups[t[1]].features[t[2]]))}

\* the record of the claim for such a triple
ViolinRecordOf(t) ==
    LET row == heap[inputRows[t[3]]]
        feature == call.featureGroups[t[1]].features[t[2]]
    IN  [plant |-> Get(row, "plant"), mutation |-> Get(row, "mutation"), feature |-> feature,
         value |-> Get(row, feature), category |-> call.featureGroups[t[1]].category]

\* C18: prepareViolinData returns one record {plant, mutation, feature, value,
\* category} for every (feature of a group, row) pair whose row has a
\* non-null mutation and a finite value of the feature, and nothing else.
C18_OneRecordPerLabelledFiniteCell ==
    returned.fn = "prepareViolinData" =>
        /\ Len(returned.value) = Cardinality(LabelledFinite)
        /\ \A t \in LabelledFinite :
             \E i \in 1..Len(returned.value) : returned.value[i] = ViolinRecordOf(t)
        /\ \A i \in 1..Len(returned.value) :
             \E t \in LabelledFinite : returned.value[i] = ViolinRecordOf(t)

\* the label of the last mapping entry that satisfies a condition, if any
LabelsOf(entries, Matches(_)) ==
    LET hits == {k \in 1..Len(entries) : Matches(entries[k])}
        last == CHOOSE k \in hits : \A h \in hits : h <= k
    IN  IF hits = {} THEN {}
        ELSE {Or(Get(entries[last], "mutation"), Get(entries[last], "Mutation_Group"))}

\* the mutation of the claim for a row: by plant name, else by plant index,
\* else null
ClaimMutations(entries, row) ==
    LET byName == LabelsOf(entries, LAMBDA e :
                     Or(Get(e, "plant"), Get(e, "Plant_Name")) = Get(row, "plant"))
        byIndex == LabelsOf(entries, LAMBDA e :
                     /\ Get(e, "Plant_Number").t = "number"
                     /\ Get(e, "Plant_Number") = Get(row, "plant_num"))
    IN  IF byName # {} THEN byName ELSE IF byIndex # {} THEN byIndex ELSE {NullValue}

\* C19: with a non-empty mapping every returned row is its input row with
\* mutation set to the label mapped to the row's plant name, else to the label
\* of the entry whose plant index equals the row's plant_num, else to null;
\* with an empty or absent mapping the rows are returned unchanged.
C19_MutationByNameThenIndex ==
    returned.fn = "mergeGenotypeMapping" =>
        IF call.genotypeMapping.null \/ Len(call.genotypeMapping.rows) = 0
        THEN /\ outputRows = inputRows
             /\ \A k \in 1..Len(inputRows) : heap[inputRows[k]].mutation = Str("old")
        ELSE /\ Len(outputRows) = Len(inputRows)
             /\ \A k \in 1..Len(inputRows) :
                  LET row == heap[inputRows[k]]
                      out == heap[outputRows[k]]
                  IN  /\ out.mutation \in ClaimMutations(call.genotypeMapping.rows, row)
                      /\ \A col \in DOMAIN row \ {"mutation"} : out[col] = row[col]

(***************************************************************************)
(* Properties of the correlation heatmap of ChartsView.                    *)
(***************************************************************************)
\* C16: whenever the correlation producer has run with fewer than 2 columns
\* for the requested chart, the error message is the 'not enough features'
\* message, no correlation matrix was computed and no plot is drawn
C16_TooFewColumnsNoMatrix ==
    (call.fn = "renderCorrelationHeatmap" /\ Len(call.columns) < 2)
        => /\ errorMessage = NotEnoughFeatures
           /\ returned = NotReturned
           /\ figure = NoFigure
           /\ plotInstance = NullValue

\* the producer has run for a chart with exactly one column
C16_Witness ==
    /\ call.fn = "renderCorrelationHeatmap"
    /\ Len(call.columns) = 1
    /\ errorMessage = NotEnoughFeatures
    /\ selectedChartType = "correlation_vegetation"

\* C21: in the lists returned by splitFeatureGroups every column whose name
\* starts with 'veg_' is in Vegetation, every column whose name starts with
\* 'texture_' is in Texture and every column whose name starts with 'morph_'
\* is in Morphology.
C21_PrefixDecidesGroup ==
    returned.fn = "splitFeatureGroups" =>
        \A i \in 1..Len(call.columns) :
            LET col == call.columns[i]
            IN  /\ startsWith(col, "veg_") => col \in Names(returned.value.Vegetation)
                /\ startsWith(col, "texture_") => col \in Names(returned.value.Texture)
                /\ startsWith(col, "morph_") => col \in Names(returned.value.Morphology)

\* the groups in the order of the claim, and whether a column matches one
GroupOrder == <<"Vegetation", "Texture", "Morphology">>

MatchesGroup(g, col) ==
    CASE g = 1 -> startsWith(col, "veg_") \/ someIncluded(vegKeys, toLowerCase(col))
      [] g = 2 -> startsWith(col, "texture_") \/ someIncluded(texKeys, toLowerCase(col))
      [] g = 3 -> startsWith(col, "morph_") \/ someIncluded(morphKeys, toLowerCase(col))

\* C22: each list returned by splitFeatureGroups is the input list restricted,
\* in input order, to the columns whose first matching group (in the order
\* Vegetation, Texture, Morphology) is the group of the list; a column that
\* matches no group is in no list.
C22_FirstMatchingGroupInOrder ==
    returned.fn = "splitFeatureGroups" =>
        \A g \in 1..3 :
            returned.value[GroupOrder[g]] =
                SelectSeq(call.columns,
                          LAMBDA col : /\ MatchesGroup(g, col)
                                       /\ \A h \in 1..(g - 1) : ~MatchesGroup(h, col))

\* a column of no group, a column matching two groups and a column of the
\* first group were categorized
C22_Witness ==
    /\ returned.fn = "splitFeatureGroups"
    /\ call.columns = <<"note", "morph_lbp", "NDVI_mean">>
    /\ returned.value = [Vegetation |-> <<"NDVI_mean">>, Texture |-> <<"morph_lbp">>,
                         Morphology |-> <<>>]

(***************************************************************************)
(* Further properties of the timeline aggregator.                          *)
(***************************************************************************)
\* a feature is chosen: a vegetation or morphology feature, or a texture
\* band together with a texture type
FeatureChosen ==
    selectedFeature # "" \/ (selectedTextureBand # "" /\ selectedTextureType # "")

\* the step starts a load
LoadStarted == FetchStarted # {} \/ (isLoadingTimeline' /\ ~isLoadingTimeline)

\* C23: a step of addPlant or removePlant that changes the selection starts a
\* load only if a feature is chosen and a plant remains selected after the
\* change.
C23_LoadOnlyWithFeatureAndPlants ==
    [][(SelectionStep /\ LoadStarted) =>
          /\ FeatureChosen
          /\ lastOp'.name = "removePlant" => Len(selectedPlants) > 1]_vars

\* the removal of one of two plants started a load of the other
C23_Witness ==
    /\ lastOp.name = "removePlant"
    /\ Len(selectedPlants) = 1
    /\ FeatureChosen
    /\ isLoadingTimeline
    /\ \E c \in pending : c.live /\ c.plant = selectedPlants[1]

\* no load is in flight: the flag is down and no request is unanswered
Quiet == ~isLoadingTimeline /\ pending = {}

\* C24: whenever no load is in flight and a feature is chosen, every selected
\* plant holds the outcome of a fetch of the selected feature.
C24_QuietDataIsOfSelectedFeature ==
    (Quiet /\ CurrentKey # NoKey) =>
        \A i \in 1..Len(selectedPlants) :
            /\ selectedPlants[i] \in DOMAIN multiPlantData
            /\ fetchOutcome[selectedPlants[i]].key = CurrentKey

\* C25: a load that is in progress eventually ends: isLoadingTimeline
\* returns to false, whatever fetches succeed or fail.
C25_LoadEnds == isLoadingTimeline ~> ~isLoadingTimeline

\* a load of two plants is in progress, one fetch failed and one is unanswered
C25_Witness ==
    /\ isLoadingTimeline
    /\ Len(selectedPlants) = 2
    /\ \E q \in SeqToSet(selectedPlants) : fetchOutcome[q].res = "fail"
    /\ \E c \in pending : c.live


\* C28: whenever no load is in flight, every plant id with a slot in
\* multiPlantData is one of the selected plants.
C28_SlotsOfSelectedPlantsOnly ==
    Quiet => DOMAIN multiPlantData \subseteq SeqToSet(selectedPlants)

\* a step of a handler of the feature selectors
FeatureStep ==
    /\ lastOp'.name \in {"featureType", "feature", "textureBand"}
    /\ ops' = ops + 1

\* C29: while no plant is selected, a step of the feature selectors starts no
\* fetch and leaves the selection empty.
C29_NoFetchWithoutPlants ==
    [][(selectedPlants = <<>> /\ FeatureStep) =>
          /\ FetchStarted = {}
          /\ selectedPlants' = <<>>]_vars

(***************************************************************************)
(* Further properties of ChartsView.                                       *)
(***************************************************************************)
\* the records are those the server holds of the species
RowsOfSpecies(rows, species) ==
    \A i \in 1..Len(rows) : rows[i].plant \in {Str(plant) : plant \in PlantsOf(species)}

\* C26: when the species is changed while an earlier load waits for its
\* responses, then once every load has been answered processedData holds
\* the records of the species selected last, in whatever order the responses
\* arrived.
C26_DataOfLatestSpecies ==
    (loads = <<>> /\ ~processedData.null) => RowsOfSpecies(processedData.rows, selectedSpecies)


(***************************************************************************)
(* Further properties of the cleaner.                                      *)
(***************************************************************************)
\* C27: loadAndCleanFeatures is idempotent: applied to the rows it has
\* returned it returns the same rows, the same kept columns and the same
\* list of feature columns.
C27_CleaningIsIdempotent ==
    cleanPc = "recleaned" => returned.value = cleaned

\* records with a null cell and a numeral in a feature column have been
\* cleaned twice: the first cleaning has changed both cells
C27_Witness ==
    /\ cleanPc = "recleaned"
    /\ Len(rawData) = 3
    /\ Get(rawData[1], "ndvi") = NullValue
    /\ Get(rawData[2], "ndvi") = Str("2")
    /\ Get(rawData[3], "ndvi") = Num(1)
    /\ cleaned.featureColumns = <<"ndvi">>
    /\ cleaned.data[1].ndvi = Num(2)
    /\ cleaned.data[2].ndvi = Num(2)


(***************************************************************************)
(* Properties of the PlantDetails view.                                    *)
(***************************************************************************)
\* the analysis is over: results or failure, and the poll timer stopped
AnalysisOver ==
    /\ ~isAnalyzing
    /\ results # NullValue \/ analysisFailed
    /\ ~pollInterval

\* C30: an analysis that was started eventually leaves the analyzing state,
\* with results set or analysisFailed true and the poll timer stopped,
\* whatever the server answers.
C30_AnalysisEnds == isAnalyzing ~> AnalysisOver

====
